---- MODULE Spec2Model ----
(***************************************************************************)
(* Model of the librepods Linux daemon (linux-rust).                       *)
(*                                                                         *)
(* Part 1: one AACP session, as built by AirPodsDevice::new                *)
(* (src/linux-rust/src/airpods.rs): the bring-up writes, the command       *)
(* channel and its drain worker, the control-command subscriptions, the    *)
(* event consumer task, the hand-off tasks, the tray menu and the UI       *)
(* command loop of async_main (src/linux-rust/src/main.rs).                *)
(*                                                                         *)
(* Part 2: the life of a session in async_main: how its connection was     *)
(* signalled, which map its manager is stored in, and what happens when    *)
(* the connection drops.                                                   *)
(*                                                                         *)
(* Part 3: the BLE monitor (src/linux-rust/src/bluetooth/le.rs): RPA       *)
(* verification, its two caches, the listener tasks and the decoding of    *)
(* the encrypted advertisement payload.                                    *)
(*                                                                         *)
(* Every `.await` of the source is a point where other tasks may run, so   *)
(* a call that is awaited is split into the step that issues it and the    *)
(* step in which it returns.                                               *)
(***************************************************************************)
EXTENDS Integers, Sequences, FiniteSets, TLC

\* ------------------------------------------------------------------ bounds
\* inbound AACP events decoded during one run
MaxEvents == 2
\* commands enqueued by the tray menu and the playback listener during one run
MaxEnqueue == 1
\* UI commands taken by the UI command loop during one run
MaxUICmds == 2
\* messages sent on the window's channel and state changes made by widgets
MaxMessages == 3
\* hand-off tasks spawned during one run
MaxHandoffs == 2

\* ---------------------------------------------------------------- alphabet
NoneV == "None"
\* Option<T>: None is the empty sequence, Some(x) the sequence <<x>>
None == <<>>
Some(x) == <<x>>

\* MAC of the local adapter (adapter.address()); the peers are "A" and "B"
local_mac == "L"
\* MAC of the accessory the session belongs to
mac_address == "D"

\* ControlCommandIdentifiers used by the session
ListeningMode == "ListeningMode"
AllowOffOption == "AllowOffOption"
ConversationDetectConfig == "ConversationDetectConfig"
OwnsConnection == "OwnsConnection"
AdaptiveVolumeConfig == "AdaptiveVolumeConfig"

\* the order of the bring-up writes in AirPodsDevice::new
BringUpOrder ==
  <<"handshake", "set_feature_flags", "notification_request", "some_packet", "proximity_keys">>

VARIABLES
  pc,            \* position of AirPodsDevice::new (and of its caller in async_main)
  has_tray,      \* tray_handle is Some (args.no_tray is false)
  bringup_log,   \* bring-up writes issued and sleeps taken, in order
  ctor_err,      \* the error! line logged for the bring-up write that just returned
  event_tx,      \* the manager's event channel is set (set_event_channel)
  subscribers,   \* the manager's subscription registry: identifier -> channels
  n_ev,          \* number of inbound events decoded by the manager so far
  rx,            \* the event channel (tx, rx)
  chan,          \* the four subscriber channels: pending values
  delivered,     \* per subscriber channel: every value ever sent into it
  published,     \* per subscriber channel: the values of the ControlCommand events of its
                 \* identifier decoded while its task was running
  rx_alive,      \* per subscriber channel: the receiver has not been dropped
  command_rx,    \* the command channel (command_tx, command_rx)
  enq_log,       \* every command sent into the command channel, in order
  worker,        \* the command-drain task
  sent,          \* every send_control_command issued by the worker, in call order
  sub_task,      \* the four subscriber tasks
  ev_task,       \* the event consumer task
  handoffs,      \* the hand-off tasks spawned by the event consumer
  mc_lock,       \* holder of the media_controller mutex
  mc_log,        \* calls made on the media controller, in order
  tray,          \* the MyTray state
  device_managers, \* the map read by the UI command loop (device_managers_clone, a copy
                 \* of async_main's map taken before the D-Bus handler is installed) has
                 \* the session's manager
  ui_task,       \* the UI command loop: its position, the command taken last, and
                 \* what its last send returned ("none" while a send is in progress)
  n_enq,         \* commands enqueued by the tray and the playback listener so far
  n_ui,          \* UI commands taken so far
  via,           \* how the connection was signalled: found at start-up, or announced
                 \* by a PropertiesChanged(Connected = true) notification
  connected,     \* the BlueZ Connected property of the accessory
  task_managers, \* the copy of the map made by the D-Bus handler for its spawned task
                 \* got the session's manager (the copy is dropped when the task ends)
  listener_tx,   \* the playback listener holds its clone of command_tx
  all_devices,   \* the device records read from devices.json: MAC -> record
  monitor,       \* the BLE monitor loop: taking reports, or ended with an error
  verified_macs, \* the verified cache: advertising address -> MAC of the matched record
  failed_macs,   \* the negative cache
  connecting_macs, \* the in-flight connection set
  cm_lock,       \* the listener task that holds the mutex of connecting_macs (0: free)
  listeners,     \* the listener tasks spawned by the monitor
  n_reports,     \* advertisement reports taken by the monitor so far
  n_updates,     \* manufacturer-data updates taken by the listeners so far
  report,        \* the address of the report the monitor took last
  update,        \* the update a listener took last
  rpa_log,       \* the addresses for which the verification loop was entered, in order
  fn_in,         \* arguments of the function under study
  fn_out,        \* its result
  app,           \* the App of the window: window, connected_devices, device_states,
                 \* and whether update has panicked
  app_device_managers, \* the registry App::device_managers: MAC of an AirPods device ->
                 \* the AllowOffOption value in its manager's status list, if any
  ui_rx,         \* the Bluetooth message channel: queued messages, all senders dropped
  wait_tasks,    \* wait_for_message tasks that have not returned
  ui_msgs,       \* messages returned by wait_for_message, not yet passed to update
  ui_hist        \* messages sent on the channel and messages handled, in order, and
                 \* per device the allow-off setting that reached its state last

vars ==
  <<pc, has_tray, bringup_log, ctor_err, event_tx, subscribers, n_ev, rx, chan,
    delivered, published, rx_alive, command_rx, enq_log, worker, sent, sub_task, ev_task,
    handoffs, mc_lock, mc_log, tray, device_managers, ui_task, n_enq, n_ui,
    via, connected, task_managers, listener_tx, all_devices, monitor, verified_macs,
    failed_macs, connecting_macs, cm_lock, listeners, n_reports, n_updates, report, update,
    rpa_log, fn_in, fn_out, app, app_device_managers, ui_rx, wait_tasks, ui_msgs, ui_hist>>

\* groups used in UNCHANGED
routerVars == <<event_tx, subscribers, n_ev, rx, chan, delivered, published, rx_alive>>
cmdVars == <<command_rx, enq_log, worker, sent, n_enq>>
taskVars == <<sub_task, ev_task, handoffs, mc_lock, mc_log>>
uiVars == <<device_managers, ui_task, n_ui>>
mainVars == <<via, connected, task_managers, listener_tx>>
leVars ==
  <<all_devices, monitor, verified_macs, failed_macs, connecting_macs, cm_lock, listeners,
    n_reports, n_updates, report, update, rpa_log>>
fnVars == <<fn_in, fn_out>>
appVars == <<app, app_device_managers, ui_rx, wait_tasks, ui_msgs, ui_hist>>

\* ------------------------------------------------------------------ helpers
Last(s) == s[Len(s)]

\* the writes of a bring-up log, sleeps removed
WritesOf(log) == SelectSeq(log, LAMBDA x : x # "sleep")

IsPrefix(s, t) == Len(s) <= Len(t) /\ SubSeq(t, 1, Len(s)) = s

\* the subscriber channels, named after their receivers
SubChans == {"listening_mode_rx", "allow_off_rx", "conversation_detect_rx", "owns_connection_rx"}

\* ================================================================ bring-up
\* mutant: the event channel is registered before the bring-up writes
Connect_SetsEventChannel ==
  /\ pc = "connect"
  /\ pc' = "handshake"
  /\ tray' = IF has_tray THEN [tray EXCEPT !.connected = TRUE] ELSE tray
  /\ event_tx' = TRUE
  /\ UNCHANGED <<has_tray, mainVars, leVars, fnVars, appVars, bringup_log, ctor_err, subscribers, n_ev,
                 rx, chan, delivered, published, rx_alive, cmdVars, taskVars, uiVars>>
\* airpods.rs:21-31: connect, tray.connected = true
Connect ==
  /\ pc = "connect"
  /\ pc' = "handshake"
  /\ tray' = IF has_tray THEN [tray EXCEPT !.connected = TRUE] ELSE tray
  /\ UNCHANGED <<has_tray, mainVars, leVars, fnVars, appVars, bringup_log, ctor_err, routerVars, cmdVars, taskVars, uiVars>>

\* a bring-up write is issued: `aacp_manager.send_x().await` is entered
BringUpCall(at, step) ==
  /\ pc = at
  /\ pc' = step \o "_wait"
  /\ bringup_log' = Append(bringup_log, step)
  /\ ctor_err' = NoneV
  /\ UNCHANGED <<has_tray, mainVars, leVars, fnVars, appVars, tray, routerVars, cmdVars, taskVars, uiVars>>

\* the write returns Ok or Err; `if let Err(e)` logs and falls through to `next`
BringUpRet(step, next) ==
  /\ pc = step \o "_wait"
  /\ \E ok \in BOOLEAN : ctor_err' = IF ok THEN NoneV ELSE step
  /\ pc' = next
  /\ UNCHANGED <<has_tray, mainVars, leVars, fnVars, appVars, bringup_log, tray, routerVars, cmdVars, taskVars, uiVars>>

\* sleep(Duration::from_millis(100)).await
Sleep(at, next) ==
  /\ pc = at
  /\ pc' = next
  /\ bringup_log' = Append(bringup_log, "sleep")
  /\ ctor_err' = NoneV
  /\ UNCHANGED <<has_tray, mainVars, leVars, fnVars, appVars, tray, routerVars, cmdVars, taskVars, uiVars>>

SendHandshake == BringUpCall("handshake", "handshake")
\* mutant: no delay after the handshake
SendHandshakeRet_NoSleep == BringUpRet("handshake", "set_feature_flags")
SendHandshakeRet == BringUpRet("handshake", "sleep1")
Sleep1 == Sleep("sleep1", "set_feature_flags")
SendSetFeatureFlags == BringUpCall("set_feature_flags", "set_feature_flags")
SendSetFeatureFlagsRet == BringUpRet("set_feature_flags", "sleep2")
Sleep2 == Sleep("sleep2", "notification_request")
SendNotificationRequest == BringUpCall("notification_request", "notification_request")
\* mutant: a failed notification request ends bring-up
SendNotificationRequestRet_Abort ==
  /\ pc = "notification_request_wait"
  /\ \E ok \in BOOLEAN :
       /\ ctor_err' = IF ok THEN NoneV ELSE "notification_request"
       /\ pc' = IF ok THEN "some_packet" ELSE "set_event_channel"
  /\ UNCHANGED <<has_tray, mainVars, leVars, fnVars, appVars, bringup_log, tray, routerVars, cmdVars, taskVars, uiVars>>
SendNotificationRequestRet == BringUpRet("notification_request", "some_packet")
\* mutant: the proximity-keys request is issued in place of the init packet
SendSomePacket_Swapped ==
  /\ pc = "some_packet"
  /\ pc' = "some_packet_wait"
  /\ bringup_log' = Append(bringup_log, "proximity_keys")
  /\ ctor_err' = NoneV
  /\ UNCHANGED <<has_tray, mainVars, leVars, fnVars, appVars, tray, routerVars, cmdVars, taskVars, uiVars>>
SendSomePacket == BringUpCall("some_packet", "some_packet")
SendSomePacketRet == BringUpRet("some_packet", "proximity_keys")
SendProximityKeysRequest == BringUpCall("proximity_keys", "proximity_keys")
SendProximityKeysRequestRet == BringUpRet("proximity_keys", "set_event_channel")


\* ================================================ rest of AirPodsDevice::new
\* airpods.rs:64-73: local MAC, media controller, the two channels, and
\* aacp_manager.set_event_channel(tx)
SetEventChannel ==
  /\ pc = "set_event_channel"
  /\ pc' = "tray_command_tx"
  /\ event_tx' = TRUE
  /\ ctor_err' = NoneV
  /\ UNCHANGED <<has_tray, mainVars, leVars, fnVars, appVars, bringup_log, tray, subscribers, n_ev, rx, chan, delivered, published,
                 rx_alive, cmdVars, taskVars, uiVars>>

\* airpods.rs:74-85: tray.command_tx = Some(command_tx.clone()), then the
\* command-drain task is spawned (no await in between)
SetTrayCommandTx ==
  /\ pc = "tray_command_tx"
  /\ pc' = "start_playback_listener"
  /\ tray' = IF has_tray THEN [tray EXCEPT !.command_tx = TRUE] ELSE tray
  /\ worker' = [worker EXCEPT !.pc = "recv"]
  /\ UNCHANGED <<has_tray, mainVars, leVars, fnVars, appVars, bringup_log, ctor_err, routerVars, command_rx, enq_log, sent,
                 n_enq, taskVars, uiVars>>

\* airpods.rs:87-90: the playback listener gets a manager clone and command_tx.clone()
StartPlaybackListener ==
  /\ pc = "start_playback_listener"
  /\ mc_lock = NoneV
  /\ pc' = "subscribe_listening_mode"
  /\ listener_tx' = TRUE
  /\ UNCHANGED <<has_tray, via, connected, task_managers, leVars, fnVars, appVars, bringup_log, ctor_err, tray, routerVars, cmdVars, taskVars, uiVars>>

\* subscribe_to_control_command(identifier, tx) followed by the spawn of the
\* task that owns the receiver
Subscribe(at, identifier, c, next) ==
  /\ pc = at
  /\ pc' = next
  /\ subscribers' = [subscribers EXCEPT ![identifier] = @ \cup {c}]
  /\ rx_alive' = [rx_alive EXCEPT ![c] = TRUE]
  /\ sub_task' = [sub_task EXCEPT ![c] = "recv"]
  /\ UNCHANGED <<has_tray, mainVars, leVars, fnVars, appVars, bringup_log, ctor_err, tray, event_tx, n_ev, rx, chan, delivered,
                 published, cmdVars, ev_task, handoffs, mc_lock, mc_log, uiVars>>

\* airpods.rs:92-103
SubscribeListeningMode ==
  Subscribe("subscribe_listening_mode", ListeningMode, "listening_mode_rx",
            "subscribe_allow_off")
\* mutant: the AllowOffOption channel is registered under ListeningMode
SubscribeAllowOffOption_WrongId ==
  Subscribe("subscribe_allow_off", ListeningMode, "allow_off_rx",
            "subscribe_conversation_detect")
\* airpods.rs:105-116
SubscribeAllowOffOption ==
  Subscribe("subscribe_allow_off", AllowOffOption, "allow_off_rx",
            "subscribe_conversation_detect")
\* airpods.rs:118-129
SubscribeConversationDetectConfig ==
  Subscribe("subscribe_conversation_detect", ConversationDetectConfig,
            "conversation_detect_rx", "subscribe_owns_connection")
\* airpods.rs:131-144
SubscribeOwnsConnection ==
  Subscribe("subscribe_owns_connection", OwnsConnection, "owns_connection_rx",
            "spawn_event_task")

\* airpods.rs:146-232: the event consumer is spawned and the device is returned
SpawnEventTask ==
  /\ pc = "spawn_event_task"
  /\ pc' = "constructed"
  /\ ev_task' = [ev_task EXCEPT !.pc = "recv"]
  /\ UNCHANGED <<has_tray, mainVars, leVars, fnVars, appVars, bringup_log, ctor_err, tray, routerVars, cmdVars, sub_task, handoffs,
                 mc_lock, mc_log, uiVars>>

\* the manager of the constructed device is stored.  At start-up
\* (main.rs:127-133) it goes into async_main's map, before that map is copied
\* for the UI command loop (main.rs:170).  After a Connected notification
\* (main.rs:223-230) it goes into the copy the handler made for its task.
RegisterManager ==
  /\ pc = "constructed"
  /\ pc' = "done"
  /\ device_managers' = IF via = "startup" THEN TRUE ELSE device_managers
  /\ task_managers' = IF via = "dbus" THEN TRUE ELSE task_managers
  /\ UNCHANGED <<has_tray, via, connected, listener_tx, leVars, fnVars, appVars, bringup_log, ctor_err,
                 tray, routerVars, cmdVars, taskVars, ui_task, n_ui>>

\* the positions of the constructor at which bring-up is over
AfterBringUp ==
  {"set_event_channel", "tray_command_tx", "start_playback_listener",
   "subscribe_listening_mode", "subscribe_allow_off", "subscribe_conversation_detect",
   "subscribe_owns_connection", "spawn_event_task", "constructed", "done"}

\* the positions at which the playback listener holds its command_tx clone
PlaybackListenerStarted ==
  {"subscribe_listening_mode", "subscribe_allow_off", "subscribe_conversation_detect",
   "subscribe_owns_connection", "spawn_event_task", "constructed", "done"}

\* ===================================================== inbound events
Ev(type, id, value, old, new) ==
  [type |-> type, id |-> id, value |-> value, old |-> old, new |-> new]

ControlCommand(id, value) == Ev("ControlCommand", id, value, <<>>, <<>>)
ConnectedDevices(old, new) == Ev("ConnectedDevices", NoneV, <<>>, old, new)
OwnershipToFalseRequest == Ev("OwnershipToFalseRequest", NoneV, <<>>, <<>>, <<>>)
EarDetection == Ev("EarDetection", NoneV, <<>>, <<>>, <<>>)
ConversationalAwareness == Ev("ConversationalAwareness", NoneV, <<1>>, <<>>, <<>>)
BatteryInfo(list) == Ev("BatteryInfo", NoneV, list, <<>>, <<>>)
\* any variant the consumer has no arm for
OtherEvent == Ev("Other", NoneV, <<>>, <<>>, <<>>)

\* (old_devices, new_devices) pairs, as lists of MACs: no growth, one new peer,
\* the local MAC among the new ones, two new peers, one peer listed twice
DeviceLists ==
  {<<(<<"A">>), (<<"A">>)>>, <<(<<"A">>), (<<"A", "B">>)>>, <<(<<"A">>), (<<"L", "B">>)>>,
   <<(<<>>), (<<"A", "B">>)>>, <<(<<>>), (<<"B", "B">>)>>}

ConnectedDevicesEvents == {ConnectedDevices(p[1], p[2]) : p \in DeviceLists}

BatteryLists ==
  {<<[component |-> 4, level |-> 50, status |-> "NotCharging"],
     [component |-> 2, level |-> 80, status |-> "Charging"]>>}

\* the channels an event's value is published to: the live channels registered
\* for the identifier of a ControlCommand event
PublishTo(evt) ==
  IF evt.type = "ControlCommand"
  THEN {c \in subscribers[evt.id] : rx_alive[c]}
  ELSE {}

\* the identifier whose values the task behind channel c consumes
IdOf(c) ==
  CASE c = "listening_mode_rx" -> ListeningMode
    [] c = "allow_off_rx" -> AllowOffOption
    [] c = "conversation_detect_rx" -> ConversationDetectConfig
    [] c = "owns_connection_rx" -> OwnsConnection

\* the task behind channel c has been spawned and has not ended
Running(c) == sub_task[c] \notin {"none", "panicked", "ended"}

\* the manager's read loop decodes one event: broadcast on the event channel if
\* one is set, and publication of a control-command value to its subscribers
ReceiveEvent(evt) ==
  /\ pc # "connect"
  /\ connected
  /\ n_ev < MaxEvents
  /\ n_ev' = n_ev + 1
  /\ rx' = IF event_tx THEN Append(rx, evt) ELSE rx
  /\ chan' = [c \in SubChans |-> IF c \in PublishTo(evt) THEN Append(chan[c], evt.value) ELSE chan[c]]
  /\ delivered' = [c \in SubChans |->
                     IF c \in PublishTo(evt) THEN Append(delivered[c], evt.value) ELSE delivered[c]]
  /\ published' = [c \in SubChans |->
                     IF evt.type = "ControlCommand" /\ evt.id = IdOf(c) /\ Running(c)
                     THEN Append(published[c], evt.value) ELSE published[c]]
  /\ UNCHANGED <<pc, has_tray, mainVars, leVars, fnVars, appVars, bringup_log, ctor_err, tray, event_tx, subscribers, rx_alive,
                 cmdVars, taskVars, uiVars>>


\* ============================================== command channel and worker
Cmd(id, value, by) == [id |-> id, value |-> value, by |-> by]

\* command_tx.send(..): an unbounded channel, the send never blocks
Enqueue(cmd) ==
  /\ command_rx' = Append(command_rx, cmd)
  /\ enq_log' = Append(enq_log, cmd)

\* one entry of the worker's log: the arguments of the call and how it returned
Sent(cmd) == [id |-> cmd.id, value |-> cmd.value, res |-> "pending"]

\* mutant: the worker takes the newest command
WorkerRecv_Newest ==
  /\ worker.pc = "recv"
  /\ command_rx # <<>>
  /\ LET cmd == Last(command_rx) IN
       /\ sent' = Append(sent, Sent(cmd))
       /\ worker' = [pc |-> "send", cmd |-> cmd]
  /\ command_rx' = SubSeq(command_rx, 1, Len(command_rx) - 1)
  /\ UNCHANGED <<pc, has_tray, mainVars, leVars, fnVars, appVars, bringup_log, ctor_err, tray, routerVars, enq_log, n_enq,
                 taskVars, uiVars>>

\* mutant: the worker does not await the send before it takes the next command
WorkerRecv_NoAwait ==
  /\ worker.pc = "recv"
  /\ command_rx # <<>>
  /\ LET cmd == Head(command_rx) IN
       /\ sent' = Append(sent, Sent(cmd))
       /\ worker' = [pc |-> "recv", cmd |-> cmd]
  /\ command_rx' = Tail(command_rx)
  /\ UNCHANGED <<pc, has_tray, mainVars, leVars, fnVars, appVars, bringup_log, ctor_err, tray, routerVars, enq_log, n_enq,
                 taskVars, uiVars>>

\* airpods.rs:80-81: command_rx.recv() yields the oldest command and
\* send_control_command(id, &value) is entered
WorkerRecv ==
  /\ worker.pc = "recv"
  /\ command_rx # <<>>
  /\ LET cmd == Head(command_rx) IN
       /\ sent' = Append(sent, Sent(cmd))
       /\ worker' = [pc |-> "send", cmd |-> cmd]
  /\ command_rx' = Tail(command_rx)
  /\ UNCHANGED <<pc, has_tray, mainVars, leVars, fnVars, appVars, bringup_log, ctor_err, tray, routerVars, enq_log, n_enq,
                 taskVars, uiVars>>

\* mutant: a failed send is retried
WorkerSendRet_Retry ==
  /\ worker.pc = "send"
  /\ \E ok \in BOOLEAN :
       IF ok
       THEN /\ sent' = [sent EXCEPT ![Len(sent)].res = "ok"]
            /\ worker' = [worker EXCEPT !.pc = "recv"]
       ELSE /\ sent' = Append([sent EXCEPT ![Len(sent)].res = "err"], Sent(worker.cmd))
            /\ worker' = worker
  /\ UNCHANGED <<pc, has_tray, mainVars, leVars, fnVars, appVars, bringup_log, ctor_err, tray, routerVars, command_rx, enq_log,
                 n_enq, taskVars, uiVars>>

\* airpods.rs:81-84: the send returns; an error is logged and the loop goes on
WorkerSendRet ==
  /\ worker.pc = "send"
  /\ \E ok \in BOOLEAN :
       sent' = [sent EXCEPT ![Len(sent)].res = IF ok THEN "ok" ELSE "err"]
  /\ worker' = [worker EXCEPT !.pc = "recv"]
  /\ UNCHANGED <<pc, has_tray, mainVars, leVars, fnVars, appVars, bringup_log, ctor_err, tray, routerVars, command_rx, enq_log,
                 n_enq, taskVars, uiVars>>

\* ------------------------------------------------------------ the tray menu
\* tray.rs:109-123: the listening-mode options of the radio group
Options(allow_off_option) ==
  IF allow_off_option = Some(1) THEN <<1, 2, 3, 4>> ELSE <<2, 3, 4>>

\* tray.rs:143: options_clone.get(current).map(|&(_, val)| val).unwrap_or(0x02)
OptionValue(options, current) ==
  IF current + 1 \in DOMAIN options THEN options[current + 1] ELSE 2

\* the radio-group indices the desktop passes to `select`
TrayIndices == {0, 3}

\* tray.rs:141-146: RadioGroup select
TraySelectListeningMode(current) ==
  /\ has_tray
  /\ tray.command_tx
  /\ n_enq < MaxEnqueue
  /\ Enqueue(Cmd(ListeningMode, <<OptionValue(Options(tray.allow_off_option), current)>>, "tray"))
  /\ n_enq' = n_enq + 1
  /\ UNCHANGED <<pc, has_tray, mainVars, leVars, fnVars, appVars, bringup_log, ctor_err, tray, routerVars, worker, sent,
                 taskVars, uiVars>>

\* tray.rs:159-168: CheckmarkItem activate
TrayToggleConversationDetect ==
  /\ has_tray
  /\ tray.command_tx
  /\ tray.conversation_detect_enabled # None
  /\ n_enq < MaxEnqueue
  /\ LET new_state == ~tray.conversation_detect_enabled[1] IN
       /\ Enqueue(Cmd(ConversationDetectConfig, <<IF ~new_state THEN 2 ELSE 1>>, "tray"))
       /\ tray' = [tray EXCEPT !.conversation_detect_enabled = Some(new_state)]
  /\ n_enq' = n_enq + 1
  /\ UNCHANGED <<pc, has_tray, mainVars, leVars, fnVars, appVars, bringup_log, ctor_err, routerVars, worker, sent, taskVars,
                 uiVars>>

\* airpods.rs:89: the playback listener owns a clone of command_tx and enqueues
\* from its own task (an ownership claim when local playback starts)
PlaybackListenerEnqueue ==
  /\ pc \in PlaybackListenerStarted
  /\ listener_tx
  /\ n_enq < MaxEnqueue
  /\ Enqueue(Cmd(OwnsConnection, <<1>>, "playback_listener"))
  /\ n_enq' = n_enq + 1
  /\ UNCHANGED <<pc, has_tray, mainVars, leVars, fnVars, appVars, bringup_log, ctor_err, tray, routerVars, worker, sent,
                 taskVars, uiVars>>

\* ======================================================== subscriber tasks
\* the receiver of channel c yields its oldest value
Pop(c) == chan' = [chan EXCEPT ![c] = Tail(@)]

\* mutant: the receiver of a panicked task stays open
Panic_KeepsReceiver(c) ==
  /\ sub_task' = [sub_task EXCEPT ![c] = "panicked"]
  /\ rx_alive' = rx_alive
  /\ chan' = [chan EXCEPT ![c] = <<>>]
  /\ tray' = tray

\* `value[0]` on an empty vector panics: the task ends and its receiver is dropped
Panic(c) ==
  /\ sub_task' = [sub_task EXCEPT ![c] = "panicked"]
  /\ rx_alive' = [rx_alive EXCEPT ![c] = FALSE]
  /\ chan' = [chan EXCEPT ![c] = <<>>]
  /\ tray' = tray

\* the closures handed to handle.update by the three tray subscribers
\* (airpods.rs:98-100, 111-113, 124-126)
TrayUpdate(c, value) ==
  CASE c = "listening_mode_rx" -> [tray EXCEPT !.listening_mode = Some(value[1])]
    [] c = "allow_off_rx" -> [tray EXCEPT !.allow_off_option = Some(value[1])]
    [] c = "conversation_detect_rx" ->
         [tray EXCEPT !.conversation_detect_enabled = Some(value[1] = 1)]

\* the loop shared by the three tray subscribers
TraySubscriber(c) ==
  /\ sub_task[c] = "recv"
  /\ chan[c] # <<>>
  /\ LET value == Head(chan[c]) IN
       IF ~has_tray
       THEN Pop(c) /\ UNCHANGED <<sub_task, rx_alive, tray>>
       ELSE IF value = <<>>
            THEN Panic(c)
            ELSE Pop(c) /\ tray' = TrayUpdate(c, value) /\ UNCHANGED <<sub_task, rx_alive>>
  /\ UNCHANGED <<pc, has_tray, mainVars, leVars, fnVars, appVars, bringup_log, ctor_err, event_tx, subscribers, n_ev, rx,
                 delivered, published, cmdVars, ev_task, handoffs, mc_lock, mc_log, uiVars>>

\* airpods.rs:95-103
ListeningModeTask == TraySubscriber("listening_mode_rx")

\* airpods.rs:108-116
AllowOffTask == TraySubscriber("allow_off_rx")

\* airpods.rs:121-129
ConversationDetectTask == TraySubscriber("conversation_detect_rx")

\* mutant: a value without bytes counts as owned
Owns_EmptyOwned(value) == (IF Len(value) >= 1 THEN value[1] ELSE 1) # 0
\* airpods.rs:136: value.get(0).copied().unwrap_or(0) != 0
Owns(value) == (IF Len(value) >= 1 THEN value[1] ELSE 0) # 0

\* a call on the media controller, made by `task` while it holds the lock
McCall(task, op) == mc_log' = Append(mc_log, <<task, op>>)

\* airpods.rs:135-137: a value arrives; on lost ownership go for the lock
OwnsConnectionRecv ==
  /\ sub_task["owns_connection_rx"] = "recv"
  /\ chan["owns_connection_rx"] # <<>>
  /\ LET value == Head(chan["owns_connection_rx"]) IN
       sub_task' = [sub_task EXCEPT !["owns_connection_rx"] =
                      IF ~Owns(value) THEN "lock" ELSE "recv"]
  /\ Pop("owns_connection_rx")
  /\ UNCHANGED <<pc, has_tray, mainVars, leVars, fnVars, appVars, bringup_log, ctor_err, tray, event_tx, subscribers, n_ev, rx,
                 delivered, published, rx_alive, cmdVars, ev_task, handoffs, mc_lock, mc_log,
                 uiVars>>

\* airpods.rs:139: mc_clone_owns.lock().await
OwnsConnectionLock ==
  /\ sub_task["owns_connection_rx"] = "lock"
  /\ mc_lock = NoneV
  /\ mc_lock' = "owns_task"
  /\ sub_task' = [sub_task EXCEPT !["owns_connection_rx"] = "pause"]
  /\ UNCHANGED <<pc, has_tray, mainVars, leVars, fnVars, appVars, bringup_log, ctor_err, tray, routerVars, cmdVars, ev_task,
                 handoffs, mc_log, uiVars>>

\* airpods.rs:140: controller.pause_all_media().await
OwnsConnectionPause ==
  /\ sub_task["owns_connection_rx"] = "pause"
  /\ McCall("owns_task", "pause_all_media")
  /\ sub_task' = [sub_task EXCEPT !["owns_connection_rx"] = "deactivate"]
  /\ UNCHANGED <<pc, has_tray, mainVars, leVars, fnVars, appVars, bringup_log, ctor_err, tray, routerVars, cmdVars, ev_task,
                 handoffs, mc_lock, uiVars>>

\* airpods.rs:141-142: controller.deactivate_a2dp_profile().await, guard dropped
OwnsConnectionDeactivate ==
  /\ sub_task["owns_connection_rx"] = "deactivate"
  /\ McCall("owns_task", "deactivate_a2dp_profile")
  /\ mc_lock' = NoneV
  /\ sub_task' = [sub_task EXCEPT !["owns_connection_rx"] = "recv"]
  /\ UNCHANGED <<pc, has_tray, mainVars, leVars, fnVars, appVars, bringup_log, ctor_err, tray, routerVars, cmdVars, ev_task,
                 handoffs, uiVars>>


\* ====================================================== event consumer task
\* airpods.rs:149: rx.recv() yields the oldest event
NextEvent == Head(rx)

\* ordinal (among all decoded events) of the event the consumer takes next
NextEventIndex == n_ev - Len(rx) + 1

EventArm(type) ==
  /\ ev_task.pc = "recv"
  /\ rx # <<>>
  /\ NextEvent.type = type
  /\ rx' = Tail(rx)

\* airpods.rs:182-184 and 221: logged, or ignored
EventControlCommand ==
  /\ \E type \in {"ControlCommand", "Other"} : EventArm(type)
  /\ UNCHANGED <<pc, has_tray, mainVars, leVars, fnVars, appVars, bringup_log, ctor_err, tray, event_tx, subscribers, n_ev, chan,
                 delivered, published, rx_alive, cmdVars, taskVars, uiVars>>

\* airpods.rs:161-177: the closure run on the tray for one BatteryInfo event
RECURSIVE ApplyBatteryInfo(_, _)
ApplyBatteryInfo(t, battery_info) ==
  IF battery_info = <<>> THEN t
  ELSE LET b == Head(battery_info)
           u == CASE b.component = 2 ->
                       [t EXCEPT !.battery_r = Some(b.level), !.battery_r_status = Some(b.status)]
                  [] b.component = 4 ->
                       [t EXCEPT !.battery_l = Some(b.level), !.battery_l_status = Some(b.status)]
                  [] b.component = 8 ->
                       [t EXCEPT !.battery_c = Some(b.level), !.battery_c_status = Some(b.status)]
                  [] OTHER -> t
       IN ApplyBatteryInfo(u, Tail(battery_info))

\* airpods.rs:157-181
EventBatteryInfo ==
  /\ EventArm("BatteryInfo")
  /\ tray' = IF has_tray THEN ApplyBatteryInfo(tray, NextEvent.value) ELSE tray
  /\ UNCHANGED <<pc, has_tray, mainVars, leVars, fnVars, appVars, bringup_log, ctor_err, event_tx, subscribers, n_ev, chan,
                 delivered, published, rx_alive, cmdVars, taskVars, uiVars>>

\* an arm that calls one handler of the media controller under its lock
EventMcArm(type, op) ==
  /\ EventArm(type)
  /\ ev_task' = [pc |-> "lock", op |-> op]
  /\ UNCHANGED <<pc, has_tray, mainVars, leVars, fnVars, appVars, bringup_log, ctor_err, tray, event_tx, subscribers, n_ev, chan,
                 delivered, published, rx_alive, cmdVars, sub_task, handoffs, mc_lock, mc_log,
                 uiVars>>

\* airpods.rs:151-153
EventEarDetection == EventMcArm("EarDetection", "handle_ear_detection")
\* airpods.rs:185-187
EventConversationalAwareness ==
  EventMcArm("ConversationalAwareness", "handle_conversational_awareness")

\* airpods.rs:153 and 187: mc_clone.lock().await
EventMcLock ==
  /\ ev_task.pc = "lock"
  /\ mc_lock = NoneV
  /\ mc_lock' = "event_task"
  /\ ev_task' = [ev_task EXCEPT !.pc = "call"]
  /\ UNCHANGED <<pc, has_tray, mainVars, leVars, fnVars, appVars, bringup_log, ctor_err, tray, routerVars, cmdVars, sub_task,
                 handoffs, mc_log, uiVars>>

\* airpods.rs:155-156 and 188-189: the handler runs, the guard is dropped
EventMcCall ==
  /\ ev_task.pc = "call"
  /\ McCall("event_task", ev_task.op)
  /\ mc_lock' = NoneV
  /\ ev_task' = [pc |-> "recv", op |-> NoneV]
  /\ UNCHANGED <<pc, has_tray, mainVars, leVars, fnVars, appVars, bringup_log, ctor_err, tray, routerVars, cmdVars, sub_task,
                 handoffs, uiVars>>

\* airpods.rs:192-196: the entries of new_devices whose MAC is in no entry of
\* old_devices and is not the local MAC
NewDevicesFiltered(old_devices, new_devices) ==
  SelectSeq(new_devices,
            LAMBDA mac : (\A i \in DOMAIN old_devices : old_devices[i] # mac) /\ mac # local_mac)

\* airpods.rs:198-212: one task is spawned per filtered entry
SpawnHandoffs(macs, ev) ==
  [i \in 1..Len(macs) |-> [mac |-> macs[i], ev |-> ev, pc |-> "media", sent |-> <<>>, res |-> <<>>]]

\* mutant: the consumer takes the event only when every hand-off has finished
EventConnectedDevices_AwaitsSends ==
  /\ EventArm("ConnectedDevices")
  /\ \A i \in DOMAIN handoffs : handoffs[i].pc = "done"
  /\ handoffs' = handoffs \o
       SpawnHandoffs(NewDevicesFiltered(NextEvent.old, NextEvent.new), NextEventIndex)
  /\ UNCHANGED <<pc, has_tray, mainVars, leVars, fnVars, appVars, bringup_log, ctor_err, tray, event_tx, subscribers, n_ev, chan,
                 delivered, published, rx_alive, cmdVars, sub_task, ev_task, mc_lock, mc_log,
                 uiVars>>
\* airpods.rs:190-213
EventConnectedDevices ==
  /\ EventArm("ConnectedDevices")
  /\ handoffs' = handoffs \o
       SpawnHandoffs(NewDevicesFiltered(NextEvent.old, NextEvent.new), NextEventIndex)
  /\ UNCHANGED <<pc, has_tray, mainVars, leVars, fnVars, appVars, bringup_log, ctor_err, tray, event_tx, subscribers, n_ev, chan,
                 delivered, published, rx_alive, cmdVars, sub_task, ev_task, mc_lock, mc_log,
                 uiVars>>

\* airpods.rs:214-217: the command is enqueued, then the lock is awaited
EventOwnershipToFalseRequest ==
  /\ EventArm("OwnershipToFalseRequest")
  /\ Enqueue(Cmd(OwnsConnection, <<0>>, "event_task"))
  /\ ev_task' = [pc |-> "own_lock", op |-> NoneV]
  /\ UNCHANGED <<pc, has_tray, mainVars, leVars, fnVars, appVars, bringup_log, ctor_err, tray, event_tx, subscribers, n_ev, chan,
                 delivered, published, rx_alive, worker, sent, n_enq, sub_task, handoffs,
                 mc_lock, mc_log, uiVars>>

\* airpods.rs:217
EventOwnershipLock ==
  /\ ev_task.pc = "own_lock"
  /\ mc_lock = NoneV
  /\ mc_lock' = "event_task"
  /\ ev_task' = [ev_task EXCEPT !.pc = "own_pause"]
  /\ UNCHANGED <<pc, has_tray, mainVars, leVars, fnVars, appVars, bringup_log, ctor_err, tray, routerVars, cmdVars, sub_task,
                 handoffs, mc_log, uiVars>>

\* mutant: the profile is deactivated before media is paused
EventOwnershipPause_Deactivate ==
  /\ ev_task.pc = "own_pause"
  /\ McCall("event_task", "deactivate_a2dp_profile")
  /\ ev_task' = [ev_task EXCEPT !.pc = "own_deactivate"]
  /\ UNCHANGED <<pc, has_tray, mainVars, leVars, fnVars, appVars, bringup_log, ctor_err, tray, routerVars, cmdVars, sub_task,
                 handoffs, mc_lock, uiVars>>

\* airpods.rs:218
EventOwnershipPause ==
  /\ ev_task.pc = "own_pause"
  /\ McCall("event_task", "pause_all_media")
  /\ ev_task' = [ev_task EXCEPT !.pc = "own_deactivate"]
  /\ UNCHANGED <<pc, has_tray, mainVars, leVars, fnVars, appVars, bringup_log, ctor_err, tray, routerVars, cmdVars, sub_task,
                 handoffs, mc_lock, uiVars>>

\* airpods.rs:219-220
EventOwnershipDeactivate ==
  /\ ev_task.pc = "own_deactivate"
  /\ McCall("event_task", "deactivate_a2dp_profile")
  /\ mc_lock' = NoneV
  /\ ev_task' = [ev_task EXCEPT !.pc = "recv"]
  /\ UNCHANGED <<pc, has_tray, mainVars, leVars, fnVars, appVars, bringup_log, ctor_err, tray, routerVars, cmdVars, sub_task,
                 handoffs, uiVars>>

\* ============================================================ hand-off tasks
\* a send of hand-off task i is entered
HandoffCall(i, at, op) ==
  /\ handoffs[i].pc = at
  /\ handoffs' = [handoffs EXCEPT ![i].pc = at \o "_wait",
                                  ![i].sent = Append(@, <<op, local_mac, handoffs[i].mac>>)]
  /\ UNCHANGED <<pc, has_tray, mainVars, leVars, fnVars, appVars, bringup_log, ctor_err, tray, routerVars, cmdVars, sub_task,
                 ev_task, mc_lock, mc_log, uiVars>>

\* it returns Ok or Err; an error is logged and the task goes on.  res is
\* what the task has of the send just returned; a finished task has nothing
HandoffRet(i, at, next) ==
  /\ handoffs[i].pc = at \o "_wait"
  /\ \E res \in {"ok", "err"} :
       handoffs' = [handoffs EXCEPT ![i].pc = next,
                                    ![i].res = IF next = "done" THEN <<>> ELSE <<res>>]
  /\ UNCHANGED <<pc, has_tray, mainVars, leVars, fnVars, appVars, bringup_log, ctor_err, tray, routerVars, cmdVars, sub_task,
                 ev_task, mc_lock, mc_log, uiVars>>

\* mutant: the add-peer packet goes out first
SendMediaInformationNewDevice_PeerFirst(i) == HandoffCall(i, "media", "add_tipi_device")
\* airpods.rs:205
SendMediaInformationNewDevice(i) == HandoffCall(i, "media", "media_information_new_device")
\* airpods.rs:205-207
SendMediaInformationNewDeviceRet(i) == HandoffRet(i, "media", "tipi")
\* airpods.rs:208
SendAddTipiDevice(i) == HandoffCall(i, "tipi", "add_tipi_device")
\* airpods.rs:208-211
SendAddTipiDeviceRet(i) == HandoffRet(i, "tipi", "done")

\* ========================================================= UI command loop
\* messages.rs:14-29: a UICommand
UICommand(kind, mac, id, value) == [kind |-> kind, mac |-> mac, id |-> id, value |-> value]

\* main.rs:238, 255, 272: device_managers_clone.get(&mac), as the kind of the
\* manager found.  The copy holds at most the AACP manager of the accessory
\* found at start-up: the ATT managers are stored into copies made for the
\* spawned tasks (main.rs:147-157, 201-209).
ManagerOf(mac) == IF mac = mac_address /\ device_managers THEN Some("AACP") ELSE None

\* mutant: every command is sent on an AACP manager
KindFor_AlwaysAACP(kind) == "AACP"
\* main.rs:240, 257, 274: the kind of manager the arm of the command matches
KindFor(kind) == IF kind = "SetNoiseCancellationMode" THEN "ATT" ELSE "AACP"

\* main.rs:235-301: a command is taken from ui_command_rx; with a manager stored
\* for its mac in device_managers_clone the send on that manager is entered,
\* otherwise "No manager for device" is logged.  At start-up the loop is spawned
\* after the discovered device has been constructed and stored.
UITake(command) ==
  /\ via = "startup" => pc = "done"
  /\ ui_task.pc = "recv"
  /\ n_ui < MaxUICmds
  /\ n_ui' = n_ui + 1
  /\ ui_task' = IF ManagerOf(command.mac) = Some(KindFor(command.kind))
                THEN [pc |-> "send", cmd |-> command, res |-> "none"]
                ELSE [pc |-> "recv", cmd |-> command, res |-> ui_task.res]
  /\ UNCHANGED <<pc, has_tray, mainVars, leVars, fnVars, appVars, bringup_log, ctor_err, tray,
                 routerVars, cmdVars, taskVars, device_managers>>

\* main.rs:237-253: manager.send_control_command(identifier, value)
UISetControlCommandStatus(mac, identifier, value) ==
  UITake(UICommand("SetControlCommandStatus", mac, identifier, value))

\* main.rs:254-270: manager.send_rename_packet(&new_name)
UIRenameDevice(mac, new_name) == UITake(UICommand("RenameDevice", mac, NoneV, new_name))

\* main.rs:271-296: manager.write(ATTHandles::NothingEverything, ..) with
\* mode.to_byte() in the packet
UISetNoiseCancellationMode(mac, mode) ==
  UITake(UICommand("SetNoiseCancellationMode", mac, NoneV, mode))

\* main.rs:242-245, 259-262 and 276-289: the send returns; an error is logged
UISendRet ==
  /\ ui_task.pc = "send"
  /\ \E result \in {"ok", "err"} : ui_task' = [ui_task EXCEPT !.pc = "recv", !.res = result]
  /\ UNCHANGED <<pc, has_tray, mainVars, leVars, fnVars, appVars, bringup_log, ctor_err, tray,
                 routerVars, cmdVars, taskVars, device_managers, n_ui>>

\* ==================================================== the connection drops
\* main.rs:183-187: a PropertiesChanged notification with Connected = false
\* reaches the handler, which returns at once
ConnectedFalse ==
  /\ pc = "done"
  /\ connected
  /\ connected' = FALSE
  /\ UNCHANGED <<pc, has_tray, via, task_managers, listener_tx, leVars, fnVars, appVars, bringup_log,
                 ctor_err, tray, routerVars, cmdVars, taskVars, uiVars>>

\* the manager's read loop ends with the connection and releases the event
\* channel and the subscriber channels
ManagerConnectionLost ==
  /\ ~connected
  /\ event_tx \/ \E id \in DOMAIN subscribers : subscribers[id] # {}
  /\ event_tx' = FALSE
  /\ subscribers' = [id \in DOMAIN subscribers |-> {}]
  /\ UNCHANGED <<pc, has_tray, mainVars, leVars, fnVars, appVars, bringup_log, ctor_err, tray, n_ev, rx,
                 chan, delivered, published, rx_alive, cmdVars, taskVars, uiVars>>

\* the playback listener ends with the connection and drops its command_tx
PlaybackListenerStop ==
  /\ ~connected
  /\ listener_tx
  /\ listener_tx' = FALSE
  /\ UNCHANGED <<pc, has_tray, via, connected, task_managers, leVars, fnVars, appVars, bringup_log,
                 ctor_err, tray, routerVars, cmdVars, taskVars, uiVars>>

\* airpods.rs:149: rx.recv() yields None once the channel is empty and its
\* sender is gone; the event consumer ends and drops its command_tx
EventTaskEnd ==
  /\ ev_task.pc = "recv"
  /\ rx = <<>>
  /\ ~event_tx
  /\ ev_task' = [pc |-> "ended", op |-> NoneV]
  /\ UNCHANGED <<pc, has_tray, mainVars, leVars, fnVars, appVars, bringup_log, ctor_err, tray,
                 routerVars, cmdVars, sub_task, handoffs, mc_lock, mc_log, uiVars>>

\* airpods.rs:96, 109, 122, 135: the subscriber's recv() yields None once its
\* channel is empty and the registry holds its sender no more
SubscriberEnd(c) ==
  /\ sub_task[c] = "recv"
  /\ chan[c] = <<>>
  /\ \A id \in DOMAIN subscribers : c \notin subscribers[id]
  /\ sub_task' = [sub_task EXCEPT ![c] = "ended"]
  /\ rx_alive' = [rx_alive EXCEPT ![c] = FALSE]
  /\ UNCHANGED <<pc, has_tray, mainVars, leVars, fnVars, appVars, bringup_log, ctor_err, tray, event_tx,
                 subscribers, n_ev, rx, chan, delivered, published, cmdVars, ev_task, handoffs,
                 mc_lock, mc_log, uiVars>>

\* the holders of a sender of the command channel: the constructor until it
\* moves command_tx into the event consumer (airpods.rs:71, 216), the tray
\* (airpods.rs:75) and the playback listener (airpods.rs:89)
CommandSenders ==
  (IF pc \in {"start_playback_listener", "subscribe_listening_mode", "subscribe_allow_off",
              "subscribe_conversation_detect", "subscribe_owns_connection", "spawn_event_task"}
   THEN {"constructor"} ELSE {})
  \cup (IF ev_task.pc \notin {"none", "ended"} THEN {"event_task"} ELSE {})
  \cup (IF has_tray /\ tray.command_tx THEN {"tray"} ELSE {})
  \cup (IF listener_tx THEN {"playback_listener"} ELSE {})

\* airpods.rs:80: command_rx.recv() yields None once the channel is empty and
\* every sender is gone; the command-drain task ends
WorkerEnd ==
  /\ worker.pc = "recv"
  /\ command_rx = <<>>
  /\ CommandSenders = {}
  /\ worker' = [worker EXCEPT !.pc = "ended"]
  /\ UNCHANGED <<pc, has_tray, mainVars, leVars, fnVars, appVars, bringup_log, ctor_err, tray,
                 routerVars, command_rx, enq_log, sent, n_enq, taskVars, uiVars>>

\* ============================================================== BLE monitor
\* reports taken by the monitor during one run
MaxReports == 2
\* manufacturer-data updates taken by the listeners during one run
MaxUpdates == 2
\* updates taken by the listeners where tasks end before the last update
MaxRepeats == 3

\* ------------------------------------------------------------ bytes and hex
Reverse(q) == [i \in 1..Len(q) |-> q[Len(q) + 1 - i]]

HexDigits == <<"0", "1", "2", "3", "4", "5", "6", "7", "8", "9", "A", "B", "C", "D", "E", "F">>

\* the value of a hex digit, upper or lower case; -1 for any other character
HexVal(ch) ==
  CASE ch = "0" -> 0 [] ch = "1" -> 1 [] ch = "2" -> 2 [] ch = "3" -> 3
    [] ch = "4" -> 4 [] ch = "5" -> 5 [] ch = "6" -> 6 [] ch = "7" -> 7
    [] ch = "8" -> 8 [] ch = "9" -> 9
    [] ch \in {"A", "a"} -> 10 [] ch \in {"B", "b"} -> 11 [] ch \in {"C", "c"} -> 12
    [] ch \in {"D", "d"} -> 13 [] ch \in {"E", "e"} -> 14 [] ch \in {"F", "f"} -> 15
    [] OTHER -> -1

\* hex::encode of one byte and of a byte string (lower case digits in the
\* crate, upper case in Address::to_string; both are read back by HexVal)
HexByte(b) == <<HexDigits[(b \div 16) + 1], HexDigits[(b % 16) + 1]>>

RECURSIVE HexEncode(_)
HexEncode(bytes) ==
  IF bytes = <<>> THEN <<>> ELSE HexByte(Head(bytes)) \o HexEncode(Tail(bytes))

\* hex::decode: Err for an odd number of characters or a character that is no
\* hex digit, else the bytes
HexDecodeOk(text) ==
  /\ Len(text) % 2 = 0
  /\ \A i \in DOMAIN text : HexVal(text[i]) >= 0

HexDecode(text) ==
  [i \in 1..(Len(text) \div 2) |-> HexVal(text[2 * i - 1]) * 16 + HexVal(text[2 * i])]

\* a & b on bytes
RECURSIVE BitAnd(_, _)
BitAnd(a, b) ==
  IF a = 0 \/ b = 0 THEN 0
  ELSE (a % 2) * (b % 2) + 2 * BitAnd(a \div 2, b \div 2)

\* ------------------------------------------------------------------ cipher
\* The AES-128 block cipher of the `aes` crate is represented by a keyed
\* permutation of 16-byte blocks in which every output byte depends on its
\* position and on the bytes before it, so that the byte order of key and
\* block matters as it does for AES.  Aes128Decrypt inverts Aes128Encrypt.
\* output byte i from input byte i, key byte i and the output byte before it
CipherByte(key, block, i, before) == (block[i] + key[i] + i + before) % 256

\* the output bytes from position i on
RECURSIVE CipherChain(_, _, _, _)
CipherChain(key, block, i, before) ==
  IF i > 16 THEN <<>>
  ELSE LET c == CipherByte(key, block, i, before)
       IN <<c>> \o CipherChain(key, block, i + 1, c)

\* cipher.encrypt_block(&mut block)
Aes128Encrypt(key, block) == CipherChain(key, block, 1, 0)

\* cipher.decrypt_block(&mut block)
Aes128Decrypt(key, block) ==
  [i \in 1..16 |->
     (block[i] + 768 - key[i] - i - (IF i = 1 THEN 0 ELSE block[i - 1])) % 256]

\* mutant: the key is used in its natural order
e_KeyNotSwapped(key, data) == Reverse(Aes128Encrypt(key, Reverse(data)))
\* le.rs:33-44
e(key, data) == Reverse(Aes128Encrypt(Reverse(key), Reverse(data)))

\* mutant: key and block are byte-swapped as in e
decrypt_Swapped(key, data) == Reverse(Aes128Decrypt(Reverse(key), Reverse(data)))
\* le.rs:46-51
decrypt(key, data) == Aes128Decrypt(key, data)

\* le.rs:53-60
ah(k, r) ==
  LET r_padded == r \o [i \in 1..13 |-> 0]
      encrypted == e(k, r_padded)
  IN SubSeq(encrypted, 1, 3)

\* addr.split(':'): the pieces of a text between the colons
RECURSIVE Split(_, _)
Split(text, piece) ==
  IF text = <<>> THEN <<piece>>
  ELSE IF Head(text) = ":" THEN <<piece>> \o Split(Tail(text), <<>>)
       ELSE Split(Tail(text), Append(piece, Head(text)))

\* u8::from_str_radix(s, 16) for the two-digit pieces of an address
FromStrRadix16(piece) == HexVal(piece[1]) * 16 + HexVal(piece[2])

\* le.rs:62-79
verify_rpa(addr, irk) ==
  LET pieces == Split(addr, <<>>)
      rpa == Reverse([i \in DOMAIN pieces |-> FromStrRadix16(pieces[i])])
  IN IF Len(rpa) # 6 THEN FALSE
     ELSE LET prand == SubSeq(rpa, 4, 6)
              hash == SubSeq(rpa, 1, 3)
              computed_hash == ah(irk, prand)
          IN hash = computed_hash

\* Address::to_string: six two-digit hex bytes joined by colons
AddressToString(a) ==
  HexByte(a[1]) \o <<":">> \o HexByte(a[2]) \o <<":">> \o HexByte(a[3]) \o <<":">>
  \o HexByte(a[4]) \o <<":">> \o HexByte(a[5]) \o <<":">> \o HexByte(a[6])

\* ------------------------------------------------------- the monitor loop
\* mutant: the device type of the record is not looked at
IrkMatches_AnyType(airpods_mac, addr) ==
  LET device_data == all_devices[airpods_mac] IN
    /\ HexDecodeOk(device_data.irk)
    /\ Len(HexDecode(device_data.irk)) = 16
    /\ verify_rpa(AddressToString(addr), HexDecode(device_data.irk))
\* le.rs:144-149: the record of airpods_mac is of type AirPods, has an identity
\* key that is valid hex of 16 bytes, and verifies the address
IrkMatches(airpods_mac, addr) ==
  LET device_data == all_devices[airpods_mac] IN
    /\ device_data.type_ = "AirPods"
    /\ HexDecodeOk(device_data.irk)
    /\ Len(HexDecode(device_data.irk)) = 16
    /\ verify_rpa(AddressToString(addr), HexDecode(device_data.irk))

\* mutant: the length of the decoded session key is not looked at
MatchedEncKey_AnyLength(mac) ==
  IF mac \notin DOMAIN all_devices THEN None
  ELSE LET enc_key == all_devices[mac].enc_key IN
         IF enc_key # <<>> /\ HexDecodeOk(enc_key)
         THEN Some(HexDecode(enc_key)) ELSE None
\* le.rs:169-179: the session key of the matched record, when it is non-empty
\* valid hex of 16 bytes
MatchedEncKey(mac) ==
  IF mac \notin DOMAIN all_devices THEN None
  ELSE LET enc_key == all_devices[mac].enc_key IN
         IF enc_key # <<>> /\ HexDecodeOk(enc_key) /\ Len(HexDecode(enc_key)) = 16
         THEN Some(HexDecode(enc_key)) ELSE None

\* mutant: an insert that keeps only the new entry
MapInsert_Replaces(map, key, value) == [k \in {key} |-> value]
\* HashMap::insert
MapInsert(map, key, value) ==
  [k \in DOMAIN map \cup {key} |-> IF k = key THEN value ELSE map[k]]

\* mutant: an address that matched no record is not remembered
FailedInsert_Forgets(addr) == failed_macs
\* le.rs:163
FailedInsert(addr) == failed_macs \cup {addr}

\* mutant: the caches outlive the return
ReturnErr_KeepsCaches ==
  /\ monitor' = "ended"
  /\ UNCHANGED <<verified_macs, failed_macs, listeners>>
\* le.rs:129, 182: `?` returns the error from start_le_monitor; the two caches
\* are locals of the function and go with it, the spawned tasks stay
ReturnErr ==
  /\ monitor' = "ended"
  /\ verified_macs' = <<>>
  /\ failed_macs' = {}
  /\ listeners' = listeners

\* le.rs:181-185: dev.events().await? and the spawn of the listener task;
\* verified is the verified cache as the report has left it
SpawnListener(addr, mac, events_ok, verified) ==
  IF events_ok
  THEN /\ listeners' = Append(listeners, [addr |-> addr, mac |-> mac,
                                          enc_key |-> MatchedEncKey(mac), pc |-> "recv",
                                          apple_data |-> <<>>, decrypted |-> <<>>,
                                          log |-> <<>>])
       /\ monitor' = monitor
       /\ verified_macs' = verified
       /\ failed_macs' = failed_macs
  ELSE ReturnErr

\* le.rs:126-185: one DeviceFound report.  The first disjunct is the error
\* return of adapter.device(addr)? (129).  The records are looked through in
\* the order of a HashMap, so any matching record may be the one found.
DeviceFound(addr) ==
  /\ monitor = "next"
  /\ n_reports < MaxReports
  /\ n_reports' = n_reports + 1
  /\ report' = addr
  /\ \/ /\ ReturnErr
        /\ UNCHANGED rpa_log
     \/ IF addr \in DOMAIN verified_macs
        THEN /\ \E events_ok \in BOOLEAN :
                  SpawnListener(addr, verified_macs[addr], events_ok, verified_macs)
             /\ UNCHANGED rpa_log
        ELSE IF addr \in failed_macs
        THEN UNCHANGED <<monitor, verified_macs, failed_macs, listeners, rpa_log>>
        ELSE /\ rpa_log' = Append(rpa_log, addr)
             /\ \E matches \in {{m \in DOMAIN all_devices : IrkMatches(m, addr)}} :
                  IF matches = {}
                  THEN /\ failed_macs' = FailedInsert(addr)
                       /\ UNCHANGED <<monitor, verified_macs, listeners>>
                  ELSE \E found_mac \in matches, events_ok \in BOOLEAN :
                         SpawnListener(addr, found_mac, events_ok,
                                       MapInsert(verified_macs, addr, found_mac))
  /\ UNCHANGED <<pc, has_tray, mainVars, all_devices, connecting_macs, cm_lock, n_updates,
                 update, fnVars, appVars, bringup_log, ctor_err, tray, routerVars, cmdVars,
                 taskVars, uiVars>>

\* ------------------------------------------- decoding of the telemetry block
\* le.rs:255
primary_left(status) == (status \div 32) % 2 = 1
\* le.rs:256
this_in_case(status) == (status \div 64) % 2 = 1
\* le.rs:257
xor_factor(status) == primary_left(status) # this_in_case(status)
\* le.rs:258
is_left_in_ear(status) ==
  IF xor_factor(status) THEN BitAnd(status, 2) # 0 ELSE BitAnd(status, 8) # 0
\* le.rs:259
is_right_in_ear(status) ==
  IF xor_factor(status) THEN BitAnd(status, 8) # 0 ELSE BitAnd(status, 2) # 0
\* mutant: the battery bytes are selected by the same flip as the in-ear bits
is_flipped_ByXor(status) == ~xor_factor(status)
\* le.rs:260
is_flipped(status) == ~primary_left(status)
\* le.rs:262: offset into the decrypted block
left_byte_index(status) == IF is_flipped(status) THEN 2 ELSE 1
\* le.rs:263
right_byte_index(status) == IF is_flipped(status) THEN 1 ELSE 2

\* mutant: the charging flag is read from bit 6
BatteryOf_ChargingBit6(byte) ==
  IF byte = 255 THEN <<0, FALSE>> ELSE <<BitAnd(byte, 127), BitAnd(byte, 64) # 0>>
\* le.rs:269-283: (battery, charging) of one battery byte
BatteryOf(byte) ==
  IF byte = 255 THEN <<0, FALSE>> ELSE <<BitAnd(byte, 127), BitAnd(byte, 128) # 0>>

\* le.rs:287, 289, 291: the level stored for a component (`battery as u8`)
TrayLevel(byte) == IF byte = 255 THEN None ELSE Some(BatteryOf(byte)[1] % 256)

\* mutant: an absent reading leaves the status unset
TrayStatus_UnsetWhenAbsent(byte) ==
  IF byte = 255 THEN None
  ELSE IF BatteryOf(byte)[2] THEN Some("Charging") ELSE Some("NotCharging")
\* le.rs:288, 290, 292: the status stored for a component
TrayStatus(byte) ==
  IF byte = 255 THEN Some("Disconnected")
  ELSE IF BatteryOf(byte)[2] THEN Some("Charging") ELSE Some("NotCharging")

\* le.rs:254-292: what one advertisement decodes to; offsets of the source
\* count from 0, positions of a sequence from 1
DecodeStatus(status, decrypted) ==
  LET left_byte == decrypted[left_byte_index(status) + 1]
      right_byte == decrypted[right_byte_index(status) + 1]
      case_byte == decrypted[3 + 1]
  IN [battery_l |-> TrayLevel(left_byte), battery_l_status |-> TrayStatus(left_byte),
      battery_r |-> TrayLevel(right_byte), battery_r_status |-> TrayStatus(right_byte),
      battery_c |-> TrayLevel(case_byte), battery_c_status |-> TrayStatus(case_byte),
      is_left_in_ear |-> is_left_in_ear(status), is_right_in_ear |-> is_right_in_ear(status)]

\* le.rs:286-293: the closure run on the tray
LeTrayUpdate(t, d) ==
  [t EXCEPT !.battery_l = d.battery_l, !.battery_l_status = d.battery_l_status,
            !.battery_r = d.battery_r, !.battery_r_status = d.battery_r_status,
            !.battery_c = d.battery_c, !.battery_c_status = d.battery_c_status]

\* -------------------------------------------------------- listener tasks
\* one entry of a listener's log of connect attempts and their exits
LeOp(op, task, arg) == [op |-> op, task |-> task, arg |-> arg]

\* where a listener goes once the connect block is behind it: to the tray
\* update (le.rs:285-293) when there is a tray, else to the next update
AfterConnectBlock == IF has_tray THEN "update" ELSE "recv"

\* mutant: the stored preference is not looked at
auto_connect_IgnoresPreference(pref) == TRUE
\* le.rs:208-211: the autoConnect preference, true when none is stored
auto_connect(pref) == IF pref = None THEN TRUE ELSE pref[1]

\* le.rs:186-214: a ManufacturerData update.  apple is data.get(&76); pref is
\* the autoConnect preference stored for the device, if any.
ListenerRecvUpTo(cap, i, apple, pref) ==
  /\ listeners[i].pc = "recv"
  /\ n_updates < cap
  /\ n_updates' = n_updates + 1
  /\ update' = [task |-> i, apple |-> apple, pref |-> pref]
  /\ IF listeners[i].enc_key = None \/ apple = None \/ ~(Len(apple[1]) > 20)
     THEN UNCHANGED listeners
     ELSE LET apple_data == apple[1]
              enc_key == listeners[i].enc_key[1]
              last_16 == SubSeq(apple_data, Len(apple_data) - 16 + 1, Len(apple_data))
              decrypted == decrypt(enc_key, last_16)
              connection_state == apple_data[10 + 1]
          IN listeners' = [listeners EXCEPT
                   ![i].apple_data = apple_data,
                   ![i].decrypted = decrypted,
                   ![i].pc = IF connection_state = 0 /\ auto_connect(pref)
                             THEN "lock" ELSE AfterConnectBlock]
  /\ UNCHANGED <<pc, has_tray, mainVars, all_devices, monitor, verified_macs, failed_macs,
                 connecting_macs, cm_lock, n_reports, report, rpa_log, fnVars, appVars, bringup_log,
                 ctor_err, tray, routerVars, cmdVars, taskVars, uiVars>>

ListenerRecv(i, apple, pref) == ListenerRecvUpTo(MaxUpdates, i, apple, pref)

\* mutant: the task goes on to its next update
AfterDuplicate_Continue == "recv"
\* le.rs:217-220: `return` inside the spawned task ends it
AfterDuplicate == "ended"

\* mutant: neither the mutex nor the in-flight set holds a listener back
ListenerLock_NoDedup(i) ==
  /\ listeners[i].pc = "lock"
  /\ connecting_macs' = connecting_macs \cup {listeners[i].addr}
  /\ cm_lock' = i
  /\ listeners' = [listeners EXCEPT
        ![i].log = Append(@, LeOp("connect", i, listeners[i].mac)),
        ![i].pc = "connect_wait"]
  /\ UNCHANGED <<pc, has_tray, mainVars, all_devices, monitor, verified_macs, failed_macs,
                 n_reports, n_updates, report, update, rpa_log, fnVars, appVars, bringup_log, ctor_err,
                 tray, routerVars, cmdVars, taskVars, uiVars>>
\* le.rs:216-235: the mutex of the in-flight set is taken; an address already
\* in the set ends the task, otherwise it is inserted and bluetoothctl is run
\* with the mutex held
ListenerLock(i) ==
  /\ listeners[i].pc = "lock"
  /\ cm_lock = 0
  /\ IF listeners[i].addr \in connecting_macs
     THEN /\ listeners' = [listeners EXCEPT ![i].pc = AfterDuplicate]
          /\ UNCHANGED <<connecting_macs, cm_lock>>
     ELSE /\ connecting_macs' = connecting_macs \cup {listeners[i].addr}
          /\ cm_lock' = i
          /\ listeners' = [listeners EXCEPT
                ![i].log = Append(@, LeOp("connect", i, listeners[i].mac)),
                ![i].pc = "connect_wait"]
  /\ UNCHANGED <<pc, has_tray, mainVars, all_devices, monitor, verified_macs, failed_macs,
                 n_reports, n_updates, report, update, rpa_log, fnVars, appVars, bringup_log, ctor_err,
                 tray, routerVars, cmdVars, taskVars, uiVars>>

\* mutant: the address leaves the in-flight set whatever the outcome
InFlightAfter_AlwaysRemoved(addr, output) == connecting_macs \ {addr}
\* le.rs:236-249: the in-flight set after bluetoothctl has run: Ok with a
\* success status, Ok with another status, or Err
InFlightAfter(addr, output) ==
  IF output = "success" THEN connecting_macs \ {addr} ELSE connecting_macs

\* le.rs:236-251: bluetoothctl has run; on success the address leaves the set;
\* the mutex is released at the end of the block
ListenerConnectRet(i) ==
  /\ listeners[i].pc = "connect_wait"
  /\ \E output \in {"success", "failure", "error"} :
       /\ connecting_macs' = InFlightAfter(listeners[i].addr, output)
       /\ listeners' = [listeners EXCEPT
             ![i].log = Append(@, LeOp("exit", i, output)),
             ![i].pc = AfterConnectBlock]
  /\ cm_lock' = 0
  /\ UNCHANGED <<pc, has_tray, mainVars, all_devices, monitor, verified_macs, failed_macs,
                 n_reports, n_updates, report, update, rpa_log, fnVars, appVars, bringup_log,
                 ctor_err, tray, routerVars, cmdVars, taskVars, uiVars>>

\* le.rs:254-293: status and battery bytes are decoded and stored in the tray
ListenerUpdate(i) ==
  /\ listeners[i].pc = "update"
  /\ tray' = LeTrayUpdate(tray, DecodeStatus(listeners[i].apple_data[5 + 1],
                                             listeners[i].decrypted))
  /\ listeners' = [listeners EXCEPT ![i].pc = "recv"]
  /\ UNCHANGED <<pc, has_tray, mainVars, all_devices, monitor, verified_macs, failed_macs,
                 connecting_macs, cm_lock, n_reports, n_updates, report, update, rpa_log,
                 fnVars, appVars, bringup_log, ctor_err, routerVars, cmdVars, taskVars, uiVars>>

\* ============================================================ specification
CCIds ==
  {ListeningMode, AllowOffOption, ConversationDetectConfig, OwnsConnection, AdaptiveVolumeConfig}

\* main.rs:88-101: the tray as async_main builds it
NewTray ==
  [conversation_detect_enabled |-> None,
   battery_l |-> None, battery_l_status |-> None,
   battery_r |-> None, battery_r_status |-> None,
   battery_c |-> None, battery_c_status |-> None,
   connected |-> FALSE, listening_mode |-> None, allow_off_option |-> None,
   command_tx |-> FALSE]

\* ================================================================ the window
\* messages.rs:5-12: BluetoothUIMessage (the handle and the data of an
\* ATTNotification are only logged by its handler)
UIMsg(type, mac, event) == [type |-> type, mac |-> mac, event |-> event]
NoOp == UIMsg("NoOp", NoneV, NoneV)
OpenWindow == UIMsg("OpenWindow", NoneV, NoneV)
DeviceConnected(mac) == UIMsg("DeviceConnected", mac, NoneV)
DeviceDisconnected(mac) == UIMsg("DeviceDisconnected", mac, NoneV)
AACPUIEvent(mac, event) == UIMsg("AACPUIEvent", mac, event)
ATTNotification(mac) == UIMsg("ATTNotification", mac, NoneV)

\* mutant: the Off entry is never offered
NoiseControlModes_NeverOff(allow_off) == <<"Transparency", "NoiseCancellation", "Adaptive">>
\* window.rs:327-341, 437-448, 555-566: the options put into the noise-control
\* combo box
NoiseControlModes(allow_off) ==
  LET modes == <<"Transparency", "NoiseCancellation", "Adaptive">> IN
    IF allow_off THEN <<"Off">> \o modes ELSE modes

\* DeviceState::AirPods: the fields that depend on the allow-off setting
AirPodsState(allow_off_mode, noise_control_state) ==
  [kind |-> "AirPods", allow_off_mode |-> allow_off_mode,
   noise_control_state |-> noise_control_state]

\* window.rs:355-365: the DeviceState::Nothing of a device that has connected
NothingState == [kind |-> "Nothing", anc_mode |-> "Off"]

\* window.rs:96-190: App::new, started minimized; the first wait on the
\* channel is started (window.rs:105-108, 188)
AppNew ==
  /\ app = [window |-> FALSE, connected_devices |-> <<>>, device_states |-> <<>>,
            panicked |-> FALSE]
  /\ app_device_managers = <<>>
  /\ ui_rx = [queue |-> <<>>, closed |-> FALSE]
  /\ wait_tasks = 1
  /\ ui_msgs = <<>>
  /\ ui_hist = [sent |-> <<>>, handled |-> <<>>, changes |-> 0, allow_off |-> <<>>]

\* what the window's actions leave alone
SessionVars ==
  <<pc, has_tray, mainVars, leVars, fnVars, bringup_log, ctor_err, tray, routerVars, cmdVars,
    taskVars, uiVars>>

\* inputs of the window taken so far
UIInputs == Len(ui_hist.sent) + ui_hist.changes

\* a sender puts a message into the channel (main.rs:126, 149, 203, 225;
\* tray.rs:134)
UISend(msg) ==
  /\ ~app.panicked
  /\ ~ui_rx.closed
  /\ UIInputs < MaxMessages
  /\ ui_rx' = [ui_rx EXCEPT !.queue = Append(@, msg)]
  /\ ui_hist' = [ui_hist EXCEPT !.sent = Append(@, msg)]
  /\ UNCHANGED <<SessionVars, app, app_device_managers, wait_tasks, ui_msgs>>

\* the last sender of the channel is dropped
UIClose ==
  /\ ~app.panicked
  /\ ~ui_rx.closed
  /\ ui_rx' = [ui_rx EXCEPT !.closed = TRUE]
  /\ UNCHANGED <<SessionVars, app, app_device_managers, wait_tasks, ui_msgs, ui_hist>>

\* the manager of an AirPods device is put into the registry the window reads;
\* allow_off is the AllowOffOption value in its status list, if any
AppManagerRegistered(mac, allow_off) ==
  /\ ~app.panicked
  /\ mac \notin DOMAIN app_device_managers
  /\ app_device_managers' = MapInsert(app_device_managers, mac, allow_off)
  /\ UNCHANGED <<SessionVars, app, ui_rx, wait_tasks, ui_msgs, ui_hist>>

\* window.rs:1173-1184: wait_for_message returns the next message of the
\* channel, or NoOp when the channel is closed and empty
WaitForMessage ==
  /\ ~app.panicked
  /\ wait_tasks > 0
  /\ ui_rx.queue # <<>> \/ ui_rx.closed
  /\ wait_tasks' = wait_tasks - 1
  /\ IF ui_rx.queue # <<>>
     THEN /\ ui_msgs' = Append(ui_msgs, Head(ui_rx.queue))
          /\ ui_rx' = [ui_rx EXCEPT !.queue = Tail(@)]
     ELSE /\ ui_msgs' = Append(ui_msgs, NoOp)
          /\ ui_rx' = ui_rx
  /\ UNCHANGED <<SessionVars, app, app_device_managers, ui_hist>>

\* update is called with Message::BluetoothMessage of the given variant
Takes(type) ==
  /\ ~app.panicked
  /\ ui_msgs # <<>>
  /\ Head(ui_msgs).type = type

\* window.rs:230-234 and the like: Task::perform(wait_for_message(ui_rx)) is
\* returned from update; allow_off is the allow-off setting per device
Rearm(allow_off) ==
  /\ ui_msgs' = Tail(ui_msgs)
  /\ wait_tasks' = wait_tasks + 1
  /\ ui_hist' = [ui_hist EXCEPT
        !.handled = IF Head(ui_msgs) = NoOp THEN @ ELSE Append(@, Head(ui_msgs)),
        !.allow_off = allow_off]
  /\ UNCHANGED <<SessionVars, app_device_managers, ui_rx>>

\* window.rs:229-236
UpdateNoOp ==
  /\ Takes("NoOp")
  /\ app' = app
  /\ Rearm(ui_hist.allow_off)

\* window.rs:237-260
UpdateOpenWindow ==
  /\ Takes("OpenWindow")
  /\ app' = [app EXCEPT !.window = TRUE]
  /\ Rearm(ui_hist.allow_off)

\* window.rs:268-277
PushConnected(connected_devices, mac) ==
  IF \E i \in DOMAIN connected_devices : connected_devices[i] = mac
  THEN connected_devices ELSE Append(connected_devices, mac)

\* window.rs:283-293, 542-552: devices_list.get(&mac).map(|d| d.type_.clone())
TypeOf(mac) == IF mac \in DOMAIN all_devices THEN Some(all_devices[mac].type_) ELSE None

\* window.rs:261-372: with an AirPods record the manager is taken from the
\* registry by get(&mac).unwrap(), which panics when there is none
UpdateDeviceConnected ==
  /\ Takes("DeviceConnected")
  /\ LET mac == Head(ui_msgs).mac
         connected_devices == PushConnected(app.connected_devices, mac)
     IN CASE TypeOf(mac) = Some("AirPods") ->
               IF mac \notin DOMAIN app_device_managers
               THEN /\ app' = [app EXCEPT !.connected_devices = connected_devices,
                                          !.panicked = TRUE]
                    /\ ui_msgs' = Tail(ui_msgs)
                    /\ UNCHANGED <<SessionVars, app_device_managers, ui_rx, wait_tasks, ui_hist>>
               ELSE LET allow_off_mode == app_device_managers[mac] = Some(<<1>>) IN
                      /\ app' = [app EXCEPT
                            !.connected_devices = connected_devices,
                            !.device_states =
                               MapInsert(@, mac, AirPodsState(allow_off_mode,
                                                              NoiseControlModes(allow_off_mode)))]
                      /\ Rearm(MapInsert(ui_hist.allow_off, mac, app_device_managers[mac]))
          [] TypeOf(mac) = Some("Nothing") ->
               /\ app' = [app EXCEPT !.connected_devices = connected_devices,
                                     !.device_states = MapInsert(@, mac, NothingState)]
               /\ Rearm(ui_hist.allow_off)
          [] OTHER ->
               /\ app' = [app EXCEPT !.connected_devices = connected_devices]
               /\ Rearm(ui_hist.allow_off)

\* mutant: every state is dropped
MapRemove_All(map, key) == <<>>
\* HashMap::remove
MapRemove(map, key) == [k \in DOMAIN map \ {key} |-> map[k]]

\* window.rs:373-385
UpdateDeviceDisconnected ==
  /\ Takes("DeviceDisconnected")
  /\ app' = [app EXCEPT !.device_states = MapRemove(@, Head(ui_msgs).mac)]
  /\ Rearm(ui_hist.allow_off)

\* window.rs:428-436: the value of an AllowOffOption status as a flag
AllowOffEnabled(value) == value = <<1>>

\* window.rs:386-470: of the events only AllowOffOption is followed here; it
\* changes the state of a device that has an AirPods state
UpdateAACPUIEvent ==
  /\ Takes("AACPUIEvent")
  /\ LET mac == Head(ui_msgs).mac
         status == Head(ui_msgs).event
     IN IF status.type = "ControlCommand" /\ status.id = AllowOffOption
        THEN LET is_enabled == AllowOffEnabled(status.value) IN
             /\ app' = IF mac \in DOMAIN app.device_states
                          /\ app.device_states[mac].kind = "AirPods"
                       THEN [app EXCEPT !.device_states[mac] =
                               AirPodsState(is_enabled, NoiseControlModes(is_enabled))]
                       ELSE app
             /\ Rearm(MapInsert(ui_hist.allow_off, mac, Some(status.value)))
        ELSE /\ app' = app
             /\ Rearm(ui_hist.allow_off)

\* window.rs:471-485
UpdateATTNotification ==
  /\ Takes("ATTNotification")
  /\ app' = app
  /\ Rearm(ui_hist.allow_off)

\* window.rs:539-574: Message::StateChanged(mac, state) comes from a widget,
\* not from the channel; the options of an AirPods state are rebuilt from the
\* allow_off_mode the state carries
UpdateStateChanged(mac, state) ==
  /\ ~app.panicked
  /\ UIInputs < MaxMessages
  /\ app' = [app EXCEPT !.device_states =
        MapInsert(@, mac,
                  IF TypeOf(mac) = Some("AirPods") /\ state.kind = "AirPods"
                  THEN AirPodsState(state.allow_off_mode,
                                    NoiseControlModes(state.allow_off_mode))
                  ELSE state)]
  /\ ui_hist' = [ui_hist EXCEPT !.changes = @ + 1]
  /\ UNCHANGED <<SessionVars, app_device_managers, ui_rx, wait_tasks, ui_msgs>>

\* App::update on the messages of the channel
Update ==
  \/ UpdateNoOp \/ UpdateOpenWindow \/ UpdateDeviceConnected \/ UpdateDeviceDisconnected
  \/ UpdateAACPUIEvent \/ UpdateATTNotification

\* no session has been constructed, the BLE monitor has seen nothing
SessionInit ==
  /\ pc = "connect"
  /\ bringup_log = <<>>
  /\ ctor_err = NoneV
  /\ event_tx = FALSE
  /\ subscribers = [id \in CCIds |-> {}]
  /\ n_ev = 0
  /\ rx = <<>>
  /\ chan = [c \in SubChans |-> <<>>]
  /\ delivered = [c \in SubChans |-> <<>>]
  /\ published = [c \in SubChans |-> <<>>]
  /\ rx_alive = [c \in SubChans |-> FALSE]
  /\ command_rx = <<>>
  /\ enq_log = <<>>
  /\ worker = [pc |-> "none", cmd |-> NoneV]
  /\ sent = <<>>
  /\ sub_task = [c \in SubChans |-> "none"]
  /\ ev_task = [pc |-> "none", op |-> NoneV]
  /\ handoffs = <<>>
  /\ mc_lock = NoneV
  /\ mc_log = <<>>
  /\ tray = NewTray
  /\ device_managers = FALSE
  /\ ui_task = [pc |-> "recv", cmd |-> UICommand(NoneV, NoneV, NoneV, <<>>), res |-> "none"]
  /\ n_enq = 0
  /\ n_ui = 0
  /\ connected = TRUE
  /\ task_managers = FALSE
  /\ listener_tx = FALSE
  /\ monitor = "next"
  /\ verified_macs = <<>>
  /\ failed_macs = {}
  /\ connecting_macs = {}
  /\ cm_lock = 0
  /\ listeners = <<>>
  /\ n_reports = 0
  /\ n_updates = 0
  /\ report = <<>>
  /\ update = [task |-> 0, apple |-> None, pref |-> None]
  /\ rpa_log = <<>>
  /\ AppNew

\* devices.json is missing or holds no record
NoDevices == <<>>

Init ==
  /\ has_tray \in BOOLEAN
  /\ via = "startup"
  /\ SessionInit
  /\ all_devices = NoDevices
  /\ fn_in = None
  /\ fn_out = None

\* the session of a device found at start-up (main.rs:121-133) or of one that
\* connects later (main.rs:220-231)
InitSession ==
  /\ has_tray \in BOOLEAN
  /\ via \in {"startup", "dbus"}
  /\ SessionInit
  /\ all_devices = NoDevices
  /\ fn_in = None
  /\ fn_out = None

\* AirPodsDevice::new and the registration of its manager by async_main
Construct ==
  \/ Connect
  \/ SendHandshake \/ SendHandshakeRet \/ Sleep1
  \/ SendSetFeatureFlags \/ SendSetFeatureFlagsRet \/ Sleep2
  \/ SendNotificationRequest \/ SendNotificationRequestRet
  \/ SendSomePacket \/ SendSomePacketRet
  \/ SendProximityKeysRequest \/ SendProximityKeysRequestRet
  \/ SetEventChannel \/ SetTrayCommandTx \/ StartPlaybackListener
  \/ SubscribeListeningMode \/ SubscribeAllowOffOption
  \/ SubscribeConversationDetectConfig \/ SubscribeOwnsConnection
  \/ SpawnEventTask \/ RegisterManager

\* the command-drain task and the callers that can enqueue at any time
Commands ==
  \/ WorkerRecv \/ WorkerSendRet
  \/ \E current \in TrayIndices : TraySelectListeningMode(current)
  \/ PlaybackListenerEnqueue

\* the ownership protocol: both paths that pause and deactivate
Ownership ==
  \/ OwnsConnectionRecv \/ OwnsConnectionLock \/ OwnsConnectionPause \/ OwnsConnectionDeactivate
  \/ EventOwnershipToFalseRequest \/ EventOwnershipLock \/ EventOwnershipPause
  \/ EventOwnershipDeactivate

\* the UI command loop of async_main
UILoop ==
  \/ \E mac \in {mac_address, "X"} : UISetControlCommandStatus(mac, ListeningMode, <<2>>)
  \/ UISendRet

\* the UI command loop with both commands that go to an AACP session
UILoopAACP ==
  \/ UILoop
  \/ \E mac \in {mac_address, "X"} : UIRenameDevice(mac, <<"n">>)

\* the UI command loop with the commands of both device kinds
UILoopAll ==
  \/ UILoopAACP
  \/ \E mac \in {mac_address, "X"} : UISetNoiseCancellationMode(mac, "Transparency")

\* the hand-off tasks
Handoffs ==
  \E i \in DOMAIN handoffs :
    \/ SendMediaInformationNewDevice(i) \/ SendMediaInformationNewDeviceRet(i)
    \/ SendAddTipiDevice(i) \/ SendAddTipiDeviceRet(i)

\* the events of the ownership protocol, and ear detection, which takes the
\* same media-controller lock
OwnershipEvents ==
  {OwnershipToFalseRequest, EarDetection}
  \cup {ControlCommand(OwnsConnection, v) : v \in {<<>>, <<0>>, <<1>>}}

\* the session with the accessory sending ownership events; the commands the
\* event consumer enqueues are drained by the worker
Next ==
  \/ Construct
  \/ WorkerRecv \/ WorkerSendRet
  \/ \E evt \in OwnershipEvents : ReceiveEvent(evt)
  \/ Ownership
  \/ EventControlCommand
  \/ EventEarDetection \/ EventMcLock \/ EventMcCall

Spec == Init /\ [][Next]_vars

\* the session with its three enqueuers of commands: the tray, the playback
\* listener, and the event consumer on an OwnershipToFalseRequest
NextCommands ==
  \/ Construct
  \/ Commands
  \/ ReceiveEvent(OwnershipToFalseRequest)
  \/ EventOwnershipToFalseRequest \/ EventOwnershipLock \/ EventOwnershipPause
  \/ EventOwnershipDeactivate

SpecCommands == Init /\ [][NextCommands]_vars

\* the hand-off tasks the queued events will spawn
RECURSIVE PendingHandoffs(_)
PendingHandoffs(q) ==
  IF q = <<>> THEN 0
  ELSE Len(NewDevicesFiltered(Head(q).old, Head(q).new)) + PendingHandoffs(Tail(q))

\* the accessory reports a connected-device list
ReceiveConnectedDevices(evt) ==
  /\ Len(handoffs) + PendingHandoffs(Append(rx, evt)) <= MaxHandoffs
  /\ ReceiveEvent(evt)

\* lists with one and with two new peers
SenderEvents == {ConnectedDevices(<<"A">>, <<"A", "B">>), ConnectedDevices(<<>>, <<"A", "B">>)}

\* the session with the three kinds of senders on the manager: the command
\* worker, the UI command loop and the hand-off tasks
NextHandoff ==
  \/ Construct
  \/ PlaybackListenerEnqueue \/ WorkerRecv \/ WorkerSendRet
  \/ UILoop
  \/ \E evt \in SenderEvents : ReceiveConnectedDevices(evt)
  \/ EventConnectedDevices
  \/ Handoffs

\* the hand-off does not touch the tray
InitHandoff ==
  /\ has_tray = TRUE
  /\ via = "startup"
  /\ SessionInit
  /\ all_devices = NoDevices
  /\ fn_in = None
  /\ fn_out = None

SpecHandoff == InitHandoff /\ [][NextHandoff]_vars

\* the session with the accessory sending connected-device lists of every
\* kind, the event consumer and the hand-off tasks
NextPeers ==
  \/ Construct
  \/ \E evt \in ConnectedDevicesEvents : ReceiveConnectedDevices(evt)
  \/ EventConnectedDevices
  \/ Handoffs

SpecPeers == InitHandoff /\ [][NextPeers]_vars

\* the events that carry settings and telemetry
ControlEvents ==
  {ControlCommand(ListeningMode, v) : v \in {<<>>, <<2>>}}
  \cup {ControlCommand(AllowOffOption, <<1>>), ControlCommand(ConversationDetectConfig, <<1>>),
        ControlCommand(OwnsConnection, <<1>>), ControlCommand(AdaptiveVolumeConfig, <<1>>)}
  \cup {BatteryInfo(l) : l \in BatteryLists}
  \cup {ConversationalAwareness, OtherEvent}

\* the session with the accessory sending control-command values
NextControl ==
  \/ Construct
  \/ \E evt \in ControlEvents : ReceiveEvent(evt)
  \/ ListeningModeTask \/ AllowOffTask \/ ConversationDetectTask
  \/ OwnsConnectionRecv
  \/ EventControlCommand \/ EventBatteryInfo
  \/ EventConversationalAwareness \/ EventMcLock \/ EventMcCall
  \/ WorkerRecv \/ WorkerSendRet
  \/ \E current \in TrayIndices : TraySelectListeningMode(current)
  \/ TrayToggleConversationDetect

SpecControl == Init /\ [][NextControl]_vars


\* the construction of a session while commands are already being enqueued
NextBringUp ==
  \/ Construct
  \/ Commands

SpecBringUp == Init /\ [][NextBringUp]_vars

\* what the accessory sends in the life of a session
SessionEvents == {ControlCommand(ListeningMode, <<2>>)}

\* the steps the session's tasks take on their own
TaskSteps ==
  \/ Construct
  \/ WorkerRecv \/ WorkerSendRet \/ WorkerEnd
  \/ EventControlCommand \/ EventTaskEnd
  \/ ListeningModeTask
  \/ \E c \in SubChans : SubscriberEnd(c)
  \/ UISendRet
  \/ ManagerConnectionLost \/ PlaybackListenerStop

\* the life of a session: construction, use by the UI, loss of the connection
NextSession ==
  \/ TaskSteps
  \/ \E evt \in SessionEvents : ReceiveEvent(evt)
  \/ PlaybackListenerEnqueue
  \/ \E mac \in {mac_address, "X"} : UISetControlCommandStatus(mac, ListeningMode, <<2>>)
  \/ \E mac \in {mac_address, "X"} : UIRenameDevice(mac, <<"n">>)
  \/ ConnectedFalse

SpecSession == InitSession /\ [][NextSession]_vars

\* the construction of a session and the UI command loop
NextUILoop == Construct \/ UILoopAll

SpecUILoop == InitSession /\ [][NextUILoop]_vars

\* the runtime runs every task that can take a step; the manager and the
\* playback listener notice the loss of the connection
FairSession ==
  /\ WF_vars(Construct)
  /\ WF_vars(WorkerRecv) /\ WF_vars(WorkerSendRet) /\ WF_vars(WorkerEnd)
  /\ WF_vars(EventControlCommand) /\ WF_vars(EventTaskEnd)
  /\ WF_vars(ListeningModeTask)
  /\ \A c \in SubChans : WF_vars(SubscriberEnd(c))
  /\ WF_vars(UISendRet)
  /\ WF_vars(ManagerConnectionLost) /\ WF_vars(PlaybackListenerStop)

SpecTeardown == SpecSession /\ FairSession

\* ------------------------------------------------- verify_rpa on its own
\* identity keys
Key1 == [i \in 1..16 |-> (17 * i + 3) % 256]
Key2 == [i \in 1..16 |-> (201 - 11 * i) % 256]
Key3 == [i \in 1..16 |-> IF i = 16 THEN 1 ELSE 0]
Keys == {Key1, Key2, Key3}

\* the random parts of resolvable private addresses
Prands == {<<p1, 52, p3>> : p1 \in {18, 240}, p3 \in {86, 122}}

\* the address whose reversed bytes are the hash followed by the random part
RpaAddress(prand, hash) == <<prand[3], prand[2], prand[1], hash[3], hash[2], hash[1]>>

\* the address an accessory with identity key irk advertises for a random part
RpaOf(irk, prand) == RpaAddress(prand, ah(irk, prand))

\* hashes that do and do not belong to a random part: the hash under each key,
\* the same bytes in the opposite order, the hash of the cipher applied
\* without any byte swapping, and zeros
HashesFor(prand) ==
  {ah(k, prand) : k \in Keys}
  \cup {Reverse(ah(k, prand)) : k \in Keys}
  \cup {SubSeq(Aes128Encrypt(k, prand \o [i \in 1..13 |-> 0]), 1, 3) : k \in Keys}
  \cup {<<0, 0, 0>>}

RpaInputs ==
  {[addr |-> RpaAddress(p, h), irk |-> k] : p \in Prands, h \in UNION {HashesFor(q) : q \in Prands},
                                           k \in Keys}

InitRpa ==
  /\ has_tray = TRUE
  /\ via = "startup"
  /\ SessionInit
  /\ all_devices = NoDevices
  /\ fn_in \in {Some(x) : x \in RpaInputs}
  /\ fn_out = None

\* le.rs:149: verify_rpa(&addr_str, &irk) with addr_str = addr.to_string()
ApplyVerifyRpa ==
  /\ fn_out = None
  /\ fn_out' = Some(verify_rpa(AddressToString(fn_in[1].addr), fn_in[1].irk))
  /\ UNCHANGED <<pc, has_tray, mainVars, leVars, fn_in, appVars, bringup_log, ctor_err, tray,
                 routerVars, cmdVars, taskVars, uiVars>>

SpecRpa == InitRpa /\ [][ApplyVerifyRpa]_vars

\* ------------------------------------------------------ the monitor's run
\* a session key
EncKey1 == [i \in 1..16 |-> (5 * i + 40) % 256]

\* a record of devices.json
DeviceRecord(irk, enc_key) == [type_ |-> "AirPods", irk |-> irk, enc_key |-> enc_key]

\* one accessory with both keys
OneDevice == [m \in {"M1"} |-> DeviceRecord(HexEncode(Key1), HexEncode(EncKey1))]

\* two accessories, each with an identity key and a session key
TwoKeyed ==
  [m \in {"M1", "M2"} |->
     DeviceRecord(HexEncode(IF m = "M1" THEN Key1 ELSE Key2), HexEncode(EncKey1))]

\* a record whose identity key is no hex, one without a session key, and a
\* record of the other device type that carries the key of the first accessory
TwoDevices ==
  [m \in {"M1", "M2", "N1"} |->
     CASE m = "M1" -> DeviceRecord(<<"z", "z">>, HexEncode(EncKey1))
       [] m = "M2" -> DeviceRecord(HexEncode(Key2), <<>>)
       [] m = "N1" -> [type_ |-> "Nothing", irk |-> HexEncode(Key1),
                       enc_key |-> HexEncode(EncKey1)]]

\* a key text of 15 bytes
ShortKeyText == HexEncode([i \in 1..15 |-> Key1[i]])

\* a record whose identity key has 15 bytes, one whose session key has 15
\* bytes, and one whose session key is no hex
BadKeys ==
  [m \in {"M1", "M2", "M3"} |->
     CASE m = "M1" -> DeviceRecord(ShortKeyText, HexEncode(EncKey1))
       [] m = "M2" -> DeviceRecord(HexEncode(Key2), ShortKeyText)
       [] m = "M3" -> DeviceRecord(HexEncode(Key1), <<"z", "z">>)]

DeviceConfigs == {NoDevices, OneDevice, TwoDevices, BadKeys}

\* advertising addresses: of the accessory with Key1, of the one with Key2,
\* and of a stranger
AddrA == RpaOf(Key1, <<18, 52, 86>>)
AddrB == RpaOf(Key2, <<240, 52, 122>>)
AddrC == <<1, 2, 3, 4, 5, 6>>
MonitorAddresses == {AddrA, AddrB, AddrC}

\* the telemetry an accessory encrypts with its session key
Telemetry == [i \in 1..16 |-> CASE i = 2 -> 85 [] i = 3 -> 213 [] i = 4 -> 255 [] OTHER -> 7 * i]

\* an Apple manufacturer payload of n bytes: status at offset 5, connection
\* state at offset 10, the encrypted telemetry in the last 16 bytes
Payload(n, status, connection_state) ==
  [i \in 1..n |->
     IF i > n - 16 THEN Aes128Encrypt(EncKey1, Telemetry)[i - (n - 16)]
     ELSE CASE i = 6 -> status [] i = 11 -> connection_state [] OTHER -> 0]

\* data.get(&76): absent, one byte too short, the shortest accepted (its
\* offsets 5 and 10 lie inside the encrypted block and its connection state
\* reads as non-zero), and the usual 27 bytes from a disconnected accessory
ApplePayloads ==
  {None, Some(Payload(20, 43, 0)), Some(Payload(21, 43, 0)), Some(Payload(27, 43, 0))}

\* the autoConnect preference: absent, true, false
Prefs == {None, Some(TRUE), Some(FALSE)}

InitLE ==
  /\ has_tray \in BOOLEAN
  /\ via = "startup"
  /\ SessionInit
  /\ all_devices \in DeviceConfigs
  /\ fn_in = None
  /\ fn_out = None

NextLE ==
  \/ \E addr \in MonitorAddresses : DeviceFound(addr)
  \/ \E i \in DOMAIN listeners :
       \/ \E apple \in ApplePayloads, pref \in Prefs : ListenerRecv(i, apple, pref)
       \/ ListenerLock(i)
       \/ ListenerConnectRet(i)
       \/ ListenerUpdate(i)

SpecLE == InitLE /\ [][NextLE]_vars

\* the monitor with two accessories in reach, for the connect attempts
InitConnect ==
  /\ has_tray \in BOOLEAN
  /\ via = "startup"
  /\ SessionInit
  /\ all_devices = TwoKeyed
  /\ fn_in = None
  /\ fn_out = None

\* one accessory, reported repeatedly, and a stranger
InitDedup ==
  /\ has_tray \in BOOLEAN
  /\ via = "startup"
  /\ SessionInit
  /\ all_devices = OneDevice
  /\ fn_in = None
  /\ fn_out = None

\* updates that say the accessory is disconnected or connected
DedupPayloads == {Some(Payload(27, 43, 0)), Some(Payload(27, 43, 1))}

\* as many updates that a task can end and updates still follow
NextDedup ==
  \/ \E addr \in {AddrA, AddrC} : DeviceFound(addr)
  \/ \E i \in DOMAIN listeners :
       \/ \E apple \in DedupPayloads : ListenerRecvUpTo(MaxRepeats, i, apple, None)
       \/ ListenerLock(i)
       \/ ListenerConnectRet(i)
       \/ ListenerUpdate(i)

SpecDedup == InitDedup /\ [][NextDedup]_vars

\* updates from a connected and from a disconnected accessory
ConnectPayloads == {Some(Payload(21, 43, 0)), Some(Payload(27, 43, 0))}

\* reports for the two accessories; the preference absent or false
NextConnect ==
  \/ \E addr \in {AddrA, AddrB} : DeviceFound(addr)
  \/ \E i \in DOMAIN listeners :
       \/ \E apple \in ConnectPayloads, pref \in {None, Some(FALSE)} :
            ListenerRecv(i, apple, pref)
       \/ ListenerLock(i)
       \/ ListenerConnectRet(i)
       \/ ListenerUpdate(i)

SpecConnect == InitConnect /\ [][NextConnect]_vars

\* the tray written by the session and by the monitor (main.rs:110, 127: both
\* get a clone of the one tray handle)
InitTelemetry ==
  /\ has_tray \in BOOLEAN
  /\ via = "startup"
  /\ SessionInit
  /\ all_devices = OneDevice
  /\ fn_in = None
  /\ fn_out = None

\* battery events: both buds; the case, disconnected, and a headphone
TelemetryLists ==
  {<<[component |-> 4, level |-> 50, status |-> "NotCharging"],
     [component |-> 2, level |-> 80, status |-> "Charging"]>>,
   <<[component |-> 8, level |-> 30, status |-> "Disconnected"],
     [component |-> 1, level |-> 60, status |-> "NotCharging"]>>}

TelemetryEvents == {BatteryInfo(l) : l \in TelemetryLists}

\* advertisements of a connected accessory with either bud as the primary
TelemetryPayloads == {Some(Payload(27, 43, 1)), Some(Payload(27, 11, 1))}

NextTelemetry ==
  \/ Construct
  \/ \E evt \in TelemetryEvents : ReceiveEvent(evt)
  \/ EventBatteryInfo
  \/ DeviceFound(AddrA)
  \/ \E i \in DOMAIN listeners :
       \/ \E apple \in TelemetryPayloads : ListenerRecv(i, apple, None)
       \/ ListenerUpdate(i)

SpecTelemetry == InitTelemetry /\ [][NextTelemetry]_vars

\* ------------------------------------------------------------ the window
\* devices.json holds two AirPods records and a Nothing record
InitApp ==
  /\ has_tray = TRUE
  /\ via = "startup"
  /\ SessionInit
  /\ all_devices = TwoDevices
  /\ fn_in = None
  /\ fn_out = None

\* the AllowOffOption entry of a manager's status list: none, on, off
AllowOffEntries == {None, Some(<<1>>), Some(<<2>>)}

\* one message of every variant that is sent
ChannelMessages ==
  {OpenWindow, DeviceConnected("M1"), DeviceDisconnected("M1"),
   AACPUIEvent("M1", ControlCommand(AllowOffOption, <<1>>)), ATTNotification("N1")}

\* the channel with its senders, the wait and update
NextChannel ==
  \/ \E msg \in ChannelMessages : UISend(msg)
  \/ UIClose
  \/ \E allow_off \in AllowOffEntries : AppManagerRegistered("M1", allow_off)
  \/ WaitForMessage
  \/ Update

SpecChannel == InitApp /\ [][NextChannel]_vars

\* connections and disconnections of an AirPods and of a Nothing device, and
\* AllowOffOption events of the AirPods device
DeviceMessages ==
  {DeviceConnected(mac) : mac \in {"M1", "N1"}}
  \cup {DeviceDisconnected(mac) : mac \in {"M1", "N1"}}
  \cup {AACPUIEvent("M1", ControlCommand(AllowOffOption, value)) : value \in {<<1>>, <<2>>}}

\* the states a widget hands over: the allow-off setting on or off, with
\* either option list
ChangedStates ==
  {AirPodsState(allow_off_mode, NoiseControlModes(listed)) :
     allow_off_mode \in BOOLEAN, listed \in BOOLEAN}

\* the device states under the messages of the channel and of the widgets
NextApp ==
  \/ \E msg \in DeviceMessages : UISend(msg)
  \/ \E allow_off \in AllowOffEntries : AppManagerRegistered("M1", allow_off)
  \/ WaitForMessage
  \/ UpdateDeviceConnected \/ UpdateDeviceDisconnected \/ UpdateAACPUIEvent
  \/ \E state \in ChangedStates : UpdateStateChanged("M1", state)

SpecApp == InitApp /\ [][NextApp]_vars

\* --------------------------------------------- the decoder on its own
\* a decrypted block with the given bytes at offsets 1, 2 and 3
Block(b1, b2, b3) ==
  [i \in 1..16 |-> CASE i = 2 -> b1 [] i = 3 -> b2 [] i = 4 -> b3 [] OTHER -> 7 * i]

\* status bytes without bits 5 and 6: no in-ear bit, either, both, other bits
StatusBases == {0, 2, 8, 10, 147}

\* bits 5 and 6 in their four combinations
Bits56 == {0, 32, 64, 96}

FlipInputs ==
  {[status |-> base + x, other |-> base + y, decrypted |-> blk] :
     base \in StatusBases, x \in Bits56, y \in Bits56,
     blk \in {Block(85, 213, 255), Block(255, 16, 100)}}

InitFlip ==
  /\ has_tray = TRUE
  /\ via = "startup"
  /\ SessionInit
  /\ all_devices = NoDevices
  /\ fn_in \in {Some(x) : x \in FlipInputs}
  /\ fn_out = None

\* le.rs:254-292 applied to two status bytes and the same block
ApplyDecodePair ==
  /\ fn_out = None
  /\ fn_out' = Some([a |-> DecodeStatus(fn_in[1].status, fn_in[1].decrypted),
                     b |-> DecodeStatus(fn_in[1].other, fn_in[1].decrypted)])
  /\ UNCHANGED <<pc, has_tray, mainVars, leVars, fn_in, appVars, bringup_log, ctor_err, tray,
                 routerVars, cmdVars, taskVars, uiVars>>

SpecFlip == InitFlip /\ [][ApplyDecodePair]_vars

\* every value of a battery byte at each of the three offsets
BatteryInputs ==
  {[status |-> st, decrypted |-> blk] :
     st \in {0, 32},
     blk \in {Block(b, 85, 255) : b \in 0..255} \cup {Block(85, b, 255) : b \in 0..255}
             \cup {Block(255, 213, b) : b \in 0..255}}

InitBattery ==
  /\ has_tray = TRUE
  /\ via = "startup"
  /\ SessionInit
  /\ all_devices = NoDevices
  /\ fn_in \in {Some(x) : x \in BatteryInputs}
  /\ fn_out = None

\* le.rs:254-292 applied to one status byte and block
ApplyDecode ==
  /\ fn_out = None
  /\ fn_out' = Some(DecodeStatus(fn_in[1].status, fn_in[1].decrypted))
  /\ UNCHANGED <<pc, has_tray, mainVars, leVars, fn_in, appVars, bringup_log, ctor_err, tray,
                 routerVars, cmdVars, taskVars, uiVars>>

SpecBattery == InitBattery /\ [][ApplyDecode]_vars

\* ------------------------------------------- the noise-control byte coding
\* enums.rs:64-71
NothingAncModes ==
  {"Off", "LowNoiseCancellation", "MidNoiseCancellation", "HighNoiseCancellation",
   "AdaptiveNoiseCancellation", "Transparency"}

\* mutant: a byte outside the table decodes to the low setting
from_byte_DefaultLow(value) ==
  CASE value = 3 -> "LowNoiseCancellation"
    [] value = 2 -> "MidNoiseCancellation"
    [] value = 1 -> "HighNoiseCancellation"
    [] value = 4 -> "AdaptiveNoiseCancellation"
    [] value = 7 -> "Transparency"
    [] value = 5 -> "Off"
    [] OTHER -> "LowNoiseCancellation"

\* enums.rs:86-96
from_byte(value) ==
  CASE value = 3 -> "LowNoiseCancellation"
    [] value = 2 -> "MidNoiseCancellation"
    [] value = 1 -> "HighNoiseCancellation"
    [] value = 4 -> "AdaptiveNoiseCancellation"
    [] value = 7 -> "Transparency"
    [] value = 5 -> "Off"
    [] OTHER -> "Off"

\* enums.rs:97-106
to_byte(mode) ==
  CASE mode = "LowNoiseCancellation" -> 3
    [] mode = "MidNoiseCancellation" -> 2
    [] mode = "HighNoiseCancellation" -> 1
    [] mode = "AdaptiveNoiseCancellation" -> 4
    [] mode = "Transparency" -> 7
    [] mode = "Off" -> 5

\* every u8 and every mode; the field the kind does not name is not read
AncInputs ==
  {[kind |-> "byte", byte |-> b, mode |-> "Off"] : b \in 0..255}
  \cup {[kind |-> "mode", byte |-> 0, mode |-> m] : m \in NothingAncModes}

InitAnc ==
  /\ has_tray = TRUE
  /\ via = "startup"
  /\ SessionInit
  /\ all_devices = NoDevices
  /\ fn_in \in {Some(x) : x \in AncInputs}
  /\ fn_out = None

\* a byte decoded and encoded again, or a mode encoded and decoded again
ApplyAncCoding ==
  /\ fn_out = None
  /\ fn_out' = Some(IF fn_in[1].kind = "byte"
                      THEN [mode |-> from_byte(fn_in[1].byte),
                            byte |-> to_byte(from_byte(fn_in[1].byte))]
                      ELSE [byte |-> to_byte(fn_in[1].mode),
                            mode |-> from_byte(to_byte(fn_in[1].mode))])
  /\ UNCHANGED <<pc, has_tray, mainVars, leVars, fn_in, appVars, bringup_log, ctor_err, tray,
                 routerVars, cmdVars, taskVars, uiVars>>

SpecAnc == InitAnc /\ [][ApplyAncCoding]_vars

\* ==================================================================== claims
\* the position the constructor is at once bring-up write k has returned
AfterStep ==
  <<"sleep1", "sleep2", "some_packet", "proximity_keys", "set_event_channel">>

\* the constructor is inside a bring-up write
InBringUpWrite(step) == pc = step \o "_wait"

\* C1: the bring-up writes are issued in the order handshake, set-feature-flags,
\* request-notifications, init packet, request-proximity-keys; once bring-up is
\* over each has been issued exactly once; and while a write has not returned
\* it is the last one issued (no successor is issued before it returns).
C1_BringUpOrder ==
  /\ IsPrefix(WritesOf(bringup_log), BringUpOrder)
  /\ pc \in AfterBringUp => WritesOf(bringup_log) = BringUpOrder
  /\ \A k \in DOMAIN BringUpOrder :
       InBringUpWrite(BringUpOrder[k]) => WritesOf(bringup_log) = SubSeq(BringUpOrder, 1, k)

C1_Witness ==
  /\ pc = "set_event_channel"
  /\ WritesOf(bringup_log) = BringUpOrder

\* C2: whichever bring-up writes fail, the write after a failed one is still
\* attempted: right after write k has returned an error the constructor stands
\* before step k+1 with exactly the first k writes issued, a next step is
\* always possible, and at the end of the sequence all five have been issued.
C2_ContinueOnError ==
  /\ \A k \in DOMAIN BringUpOrder :
       ctor_err = BringUpOrder[k] =>
         /\ pc = AfterStep[k]
         /\ WritesOf(bringup_log) = SubSeq(BringUpOrder, 1, k)
  /\ pc \notin AfterBringUp => ENABLED Construct
  /\ pc \in AfterBringUp => WritesOf(bringup_log) = BringUpOrder

C2_Witness ==
  /\ pc = "set_event_channel"
  /\ ctor_err = "proximity_keys"
  /\ WritesOf(bringup_log) = BringUpOrder

BringUpWithDelays ==
  <<"handshake", "sleep", "set_feature_flags", "sleep", "notification_request", "some_packet",
    "proximity_keys">>

Args(q) == [i \in DOMAIN q |-> <<q[i].id, q[i].value>>]

\* the callers that have enqueued so far
Enqueuers == {enq_log[i].by : i \in DOMAIN enq_log}

\* C4: the commands handed to send_control_command so far, followed by the
\* commands still queued, are exactly the commands enqueued so far, in enqueue
\* order: none is lost, duplicated or reordered, whoever enqueued them.
C4_SendsInEnqueueOrder == Args(enq_log) = Args(sent) \o Args(command_rx)

C4_Witness ==
  /\ Len(sent) >= 2
  /\ Cardinality(Enqueuers) >= 2
  /\ Args(sent)[1] # Args(sent)[2]

\* the sends of the worker that have not returned
PendingSends == {i \in DOMAIN sent : sent[i].res = "pending"}

\* tasks that are inside a send on the session's manager
NumSending ==
  (IF worker.pc = "send" THEN 1 ELSE 0)
  + (IF ui_task.pc = "send" THEN 1 ELSE 0)
  + Cardinality({i \in DOMAIN handoffs : handoffs[i].pc \in {"media_wait", "tipi_wait"}})

C6_OneAttemptPerCommand ==
  /\ Len(sent) + Len(command_rx) = Len(enq_log)
  /\ \A i \in DOMAIN sent : Args(sent)[i] = Args(enq_log)[i]
  /\ \A i \in DOMAIN sent : sent[i].res = "pending" => i = Len(sent) /\ worker.pc = "send"
  /\ worker.pc = "recv" /\ command_rx # <<>> => ENABLED WorkerRecv

C6_Witness ==
  \E i \in DOMAIN sent :
    /\ sent[i].res = "err"
    /\ i < Len(sent)
    /\ Args(sent)[i] # Args(sent)[i + 1]


Range(q) == {q[i] : i \in DOMAIN q}

\* the MACs that occur in new, do not occur in old and are not the local MAC
NewPeers(old, new) == {mac \in Range(new) : mac \notin Range(old) /\ mac # local_mac}

\* the event consumer takes a ConnectedDevices event in this step
TakesConnectedDevices ==
  /\ ev_task.pc = "recv"
  /\ rx # <<>>
  /\ NextEvent.type = "ConnectedDevices"
  /\ rx' = Tail(rx)

\* the hand-off tasks launched by this step
Launched == SubSeq(handoffs', Len(handoffs) + 1, Len(handoffs'))

\* C7: when a ConnectedDevices(old, new) event is handled, a hand-off is
\* launched for every MAC of new that is not in old and is not the local MAC,
\* once per such MAC, and for no other MAC.
C7_OneHandoffPerNewMac ==
  [][TakesConnectedDevices =>
       /\ \A i \in DOMAIN Launched : Launched[i].mac \in NewPeers(NextEvent.old, NextEvent.new)
       /\ \A mac \in NewPeers(NextEvent.old, NextEvent.new) :
            Cardinality({i \in DOMAIN Launched : Launched[i].mac = mac}) = 1]_vars

\* the calls made on the media controller by one task
McCallsOf(task) == SelectSeq(mc_log, LAMBDA x : x[1] = task)

\* n complete rounds of pause and deactivate by one task, the last `missing`
\* calls not made yet
RECURSIVE Rounds(_, _)
Rounds(task, n) ==
  IF n = 0 THEN <<>>
  ELSE Rounds(task, n - 1) \o <<(<<task, "pause_all_media">>), (<<task, "deactivate_a2dp_profile">>)>>

PauseDeactivate(task, n, missing) == SubSeq(Rounds(task, n), 1, 2 * n - missing)

\* commands the event consumer has enqueued
EnqueuedByEventTask == SelectSeq(enq_log, LAMBDA c : c.by = "event_task")

\* calls of the current OwnershipToFalseRequest round that are still to come
OwnershipCallsToCome ==
  CASE ev_task.pc \in {"own_lock", "own_pause"} -> 2
    [] ev_task.pc = "own_deactivate" -> 1
    [] OTHER -> 0

\* the event consumer takes an OwnershipToFalseRequest in this step
TakesOwnershipToFalseRequest ==
  /\ ev_task.pc = "recv"
  /\ rx # <<>>
  /\ NextEvent.type = "OwnershipToFalseRequest"
  /\ rx' = Tail(rx)

\* C8: taking an OwnershipToFalseRequest enqueues (OwnsConnection, [0x00]) at
\* once, before any call on the media controller; the pause and the
\* deactivation follow in that order, once each per request: the consumer's
\* pause/deactivate calls are one round per command it has enqueued, the
\* current round being as far as the consumer's position says.
C8_EnqueueThenPauseThenDeactivate ==
  /\ [][TakesOwnershipToFalseRequest =>
          /\ enq_log' = Append(enq_log, Cmd(OwnsConnection, <<0>>, "event_task"))
          /\ mc_log' = mc_log
          /\ ev_task'.pc = "own_lock"]_vars
  /\ [](/\ \A i \in DOMAIN EnqueuedByEventTask :
             Args(EnqueuedByEventTask)[i] = <<OwnsConnection, <<0>> >>
        /\ SelectSeq(McCallsOf("event_task"), LAMBDA x : x[2] # "handle_ear_detection")
             = PauseDeactivate("event_task", Len(EnqueuedByEventTask), OwnershipCallsToCome))

C8_Witness ==
  /\ Len(EnqueuedByEventTask) = 2
  /\ McCallsOf("event_task") = Rounds("event_task", 2)

\* the values the OwnsConnection task has taken from its channel
OwnsValuesTaken ==
  SubSeq(delivered["owns_connection_rx"], 1,
         Len(delivered["owns_connection_rx"]) - Len(chan["owns_connection_rx"]))

\* a value that denotes ownership = false: first byte zero, or no byte at all
DenotesNotOwned(value) == value = <<>> \/ value[1] = 0

\* calls of the current round of the OwnsConnection task that are still to come
OwnsCallsToCome ==
  CASE sub_task["owns_connection_rx"] \in {"lock", "pause"} -> 2
    [] sub_task["owns_connection_rx"] = "deactivate" -> 1
    [] OTHER -> 0

\* C9: the OwnsConnection task pauses all media and then deactivates the audio
\* profile once for every value taken that denotes ownership = false, and makes
\* no call for a value that denotes ownership = true.
C9_PauseOnLostOwnership ==
  McCallsOf("owns_task")
    = PauseDeactivate("owns_task", Len(SelectSeq(OwnsValuesTaken, DenotesNotOwned)),
                      OwnsCallsToCome)

C9_Witness ==
  /\ \E i \in DOMAIN OwnsValuesTaken : OwnsValuesTaken[i] = <<>>
  /\ \E i \in DOMAIN OwnsValuesTaken : OwnsValuesTaken[i] = <<1>>
  /\ chan["owns_connection_rx"] = <<>>
  /\ McCallsOf("owns_task") = Rounds("owns_task", 1)

IsSuffix(s, t) == Len(s) <= Len(t) /\ SubSeq(t, Len(t) - Len(s) + 1, Len(t)) = s

\* C10: the values sent into a subscriber channel are exactly the values of the
\* ControlCommand events of its identifier decoded while its task was running,
\* in order, and no value of another identifier; and what a running task has
\* not taken yet is still in its channel.
C10_SubscriberGetsItsIdentifier ==
  \A c \in SubChans :
    /\ delivered[c] = published[c]
    /\ Running(c) => IsSuffix(chan[c], delivered[c])

C10_Witness ==
  /\ n_ev = 2
  /\ Len(delivered["listening_mode_rx"]) = 1
  /\ Len(delivered["allow_off_rx"]) = 1


\* a subscriber task whose receiver has been dropped
Dropped(c) == sub_task[c] = "panicked"

\* the manager decodes a ControlCommand event in this step
DecodesControlCommand(id) ==
  /\ n_ev' = n_ev + 1
  /\ rx' # <<>>
  /\ Last(rx').type = "ControlCommand"
  /\ Last(rx').id = id

\* C11: when a ControlCommand event is decoded for an identifier whose
\* subscriber has dropped its receiver, nothing is sent into the dropped
\* channel, the event is appended to the event stream, every running subscriber
\* of the identifier gets the value, and no task leaves its position (the
\* consumer can take the event, no subscriber ends).
C11_DroppedReceiverIsSkipped ==
  [][\A d \in SubChans :
       Dropped(d) /\ DecodesControlCommand(IdOf(d)) =>
         /\ chan'[d] = chan[d] /\ delivered'[d] = delivered[d]
         /\ rx' = Append(rx, Last(rx'))
         /\ \A c \in SubChans \ {d} :
              chan'[c] = IF IdOf(c) = IdOf(d) /\ Running(c)
                         THEN Append(chan[c], Last(rx').value) ELSE chan[c]
         /\ sub_task' = sub_task /\ ev_task' = ev_task /\ worker' = worker]_vars

C11_Witness ==
  /\ Dropped("listening_mode_rx")
  /\ ev_task.pc = "recv"
  /\ rx = <<ControlCommand(ListeningMode, <<2>>)>>
  /\ n_ev = 2
  /\ chan["listening_mode_rx"] = <<>>

\* the UI command loop takes a command addressed to the session's accessory
UITakesCommandForDevice ==
  /\ n_ui' = n_ui + 1
  /\ ui_task'.cmd.mac = mac_address
  /\ ui_task'.cmd.kind \in {"SetControlCommandStatus", "RenameDevice"}

\* C12: once the session of a device has been constructed and stored, however
\* its connection was signalled, a SetControlCommandStatus or RenameDevice
\* command for its MAC is sent on its manager.
C12_UICommandReachesSession ==
  [][pc = "done" /\ UITakesCommandForDevice => ui_task'.pc = "send"]_vars

\* C13: handling the notification that the connection has dropped leaves no
\* manager registered for the MAC.
C13_DisconnectRemovesManager ==
  [][connected /\ ~connected' => ~device_managers']_vars

\* every task of the session has ended
AllTasksEnded ==
  /\ worker.pc = "ended"
  /\ ev_task.pc = "ended"
  /\ \A c \in SubChans : sub_task[c] \in {"ended", "panicked"}

\* C14: once the connection of a constructed session has dropped, the
\* command-drain task, the event consumer and every subscriber task end.
C14_TeardownEndsTasks == ~connected ~> AllTasksEnded

\* the 16-byte block whose first three bytes are r and whose other bytes are 0
PaddedBlock(r) == [i \in 1..16 |-> IF i <= 3 THEN r[i] ELSE 0]

\* C16: verify_rpa accepts the address o1:o2:o3:o4:o5:o6 with identity key K
\* exactly when [o6, o5, o4] are the first three bytes of
\* reverse(encrypt(key = reverse(K), block = reverse(P))), P being the block
\* that starts with [o3, o2, o1] and is zero elsewhere.
C16_VerifyRpaByteOrder ==
  fn_out # None =>
    LET o == fn_in[1].addr
        K == fn_in[1].irk
        P == PaddedBlock(<<o[3], o[2], o[1]>>)
        c == Reverse(Aes128Encrypt(Reverse(K), Reverse(P)))
    IN fn_out[1] <=> (<<o[6], o[5], o[4]>> = <<c[1], c[2], c[3]>>)

C16_Witness ==
  /\ fn_out = Some(TRUE)
  /\ fn_in[1].irk = Key2

\* bit k of a byte is set
BitSet(byte, k) == (byte \div (2 ^ k)) % 2 = 1

\* flip = bit 5 XOR bit 6 of a status byte
Flip(status) == BitSet(status, 5) # BitSet(status, 6)

SameBatteries(x, y) ==
  /\ x.battery_l = y.battery_l /\ x.battery_l_status = y.battery_l_status
  /\ x.battery_r = y.battery_r /\ x.battery_r_status = y.battery_r_status

ExchangedBatteries(x, y) ==
  /\ x.battery_l = y.battery_r /\ x.battery_l_status = y.battery_r_status
  /\ x.battery_r = y.battery_l /\ x.battery_r_status = y.battery_l_status

SameInEar(x, y) ==
  x.is_left_in_ear = y.is_left_in_ear /\ x.is_right_in_ear = y.is_right_in_ear

ExchangedInEar(x, y) ==
  x.is_left_in_ear = y.is_right_in_ear /\ x.is_right_in_ear = y.is_left_in_ear

SameCase(x, y) == x.battery_c = y.battery_c /\ x.battery_c_status = y.battery_c_status

ByteOf(comp) ==
  LET blk == fn_in[1].decrypted
      p == BitSet(fn_in[1].status, 5)
  IN CASE comp = "l" -> IF p THEN blk[2] ELSE blk[3]
       [] comp = "r" -> IF p THEN blk[3] ELSE blk[2]
       [] comp = "c" -> blk[4]

LevelOf(comp) ==
  CASE comp = "l" -> fn_out[1].battery_l
    [] comp = "r" -> fn_out[1].battery_r
    [] comp = "c" -> fn_out[1].battery_c

StatusOf(comp) ==
  CASE comp = "l" -> fn_out[1].battery_l_status
    [] comp = "r" -> fn_out[1].battery_r_status
    [] comp = "c" -> fn_out[1].battery_c_status

Components == {"l", "r", "c"}

\* C19: a battery byte 0xFF gives no level and status Disconnected; any other
\* byte b gives level b mod 128 with status Charging when b >= 128 and
\* NotCharging otherwise; the level is absent exactly when the status is
\* Disconnected.
C19_BatteryByteDecoding ==
  fn_out # None =>
    \A comp \in Components :
      LET b == ByteOf(comp) IN
        /\ b = 255 => LevelOf(comp) = None /\ StatusOf(comp) = Some("Disconnected")
        /\ b # 255 =>
             /\ LevelOf(comp) = Some(b % 128)
             /\ StatusOf(comp) = Some(IF b >= 128 THEN "Charging" ELSE "NotCharging")
        /\ LevelOf(comp) = None <=> StatusOf(comp) = Some("Disconnected")

C19_Witness ==
  /\ fn_out # None
  /\ ByteOf("c") = 213 /\ LevelOf("c") = Some(85) /\ StatusOf("c") = Some("Charging")
  /\ ByteOf("l") = 213 /\ ByteOf("r") = 255 /\ LevelOf("r") = None

\* C20: whatever the battery byte, the level stored for a component is absent
\* or lies in 0..100.
C20_LevelAtMost100 ==
  fn_out # None =>
    \A comp \in Components : LevelOf(comp) = None \/ LevelOf(comp)[1] \in 0..100

\* how often the verification loop was entered for an address
TimesVerified(a) == Cardinality({k \in DOMAIN rpa_log : rpa_log[k] = a})

\* the monitor takes a report in this step and goes on
TakesReport == n_reports' = n_reports + 1 /\ monitor' = "next"

\* C15: no address enters the verification loop twice; a report for an address
\* in the verified cache starts a listener with the cached record (and its
\* session key) without verification; a report for an address in the negative
\* cache is dropped without verification.
C15_VerifiedAtMostOnce ==
  /\ [](\A a \in MonitorAddresses : TimesVerified(a) <= 1)
  /\ [][TakesReport =>
          /\ report' \in DOMAIN verified_macs =>
               /\ rpa_log' = rpa_log
               /\ Len(listeners') = Len(listeners) + 1
               /\ Last(listeners').addr = report'
               /\ Last(listeners').mac = verified_macs[report']
               /\ Last(listeners').enc_key = MatchedEncKey(verified_macs[report'])
          /\ report' \in failed_macs =>
               /\ rpa_log' = rpa_log
               /\ listeners' = listeners
               /\ verified_macs' = verified_macs /\ failed_macs' = failed_macs]_vars

\* the same address was reported twice, verified once, and both listeners
\* carry the record and the session key found by that one verification
C15_Witness ==
  /\ n_reports = 2
  /\ rpa_log = <<AddrA>>
  /\ report = AddrA
  /\ Len(listeners) = 2
  /\ \A i \in DOMAIN listeners :
       /\ listeners[i].addr = AddrA
       /\ listeners[i].mac = "M1"
       /\ listeners[i].enc_key = Some(EncKey1)

\* a listener takes an update that carries an Apple payload of n bytes
TakesPayload(n) ==
  /\ n_updates' = n_updates + 1
  /\ update'.apple # None
  /\ Len(update'.apple[1]) = n

\* C17: an update whose Apple payload has fewer than 21 bytes changes neither
\* the telemetry nor the in-flight set and starts no connect attempt; for a
\* payload of 21 bytes or more (and a listener that has a session key) the
\* block handed to the cipher is the last 16 bytes of the payload and the key
\* is the record's session key, both in their natural byte order.
C17_ShortPayloadSkippedLast16Decrypted ==
  [][/\ TakesPayload(20) =>
          /\ tray' = tray
          /\ listeners' = listeners /\ connecting_macs' = connecting_macs
     /\ \A n \in {21, 27} :
          TakesPayload(n) /\ listeners[update'.task].enc_key # None =>
            LET i == update'.task
                payload == update'.apple[1]
                key == HexDecode(all_devices[listeners[i].mac].enc_key)
                block == [k \in 1..16 |-> payload[n - 16 + k]]
            IN listeners'[i].decrypted = Aes128Decrypt(key, block)]_vars

C17_Witness ==
  /\ update.apple = Some(Payload(21, 43, 0))
  /\ listeners[update.task].decrypted = Telemetry
  /\ listeners[update.task].pc = "recv"
  /\ tray.battery_l = Some(85) /\ tray.battery_r_status = Some("Charging")

\* the listeners whose connect attempt for address a is in progress
Connecting(a) ==
  {i \in DOMAIN listeners : listeners[i].pc = "connect_wait" /\ listeners[i].addr = a}

\* C21: at no time are two connect attempts for one address in progress,
\* however the listener tasks for that address are interleaved.
C21_OneAttemptPerAddress == \A a \in MonitorAddresses : Cardinality(Connecting(a)) <= 1

\* two listeners of one address have both seen a disconnected accessory: one
\* runs the attempt, the other is held back
C21_Witness ==
  /\ Len(listeners) = 2
  /\ listeners[1].addr = listeners[2].addr
  /\ listeners[1].pc = "connect_wait"
  /\ listeners[2].pc = "lock"
  /\ listeners[2].apple_data = Payload(27, 43, 0)

\* a key text that is valid hex of 16 bytes
ValidKeyText(text) == Len(text) = 32 /\ \A k \in DOMAIN text : HexVal(text[k]) >= 0

\* the record the listener i was spawned for
RecordOf(i) == all_devices[listeners[i].mac]

\* C22: a record whose identity key is malformed matches no report, a listener
\* for a record whose session key is malformed has no key, and an update that
\* is under-length or reaches a listener without key changes neither the
\* telemetry nor the in-flight set and moves no listener; none of these ends
\* the monitor loop, which takes the reports that follow.
C22_MalformedInputSkipped ==
  /\ [](\A i \in DOMAIN listeners :
          /\ ValidKeyText(RecordOf(i).irk)
          /\ ~ValidKeyText(RecordOf(i).enc_key) => listeners[i].enc_key = None)
  /\ [][/\ n_updates' = n_updates + 1 =>
            /\ monitor' = monitor
            /\ (\/ listeners[update'.task].enc_key = None
                \/ update'.apple = None
                \/ Len(update'.apple[1]) < 21) =>
                 /\ tray' = tray
                 /\ connecting_macs' = connecting_macs
                 /\ listeners' = listeners
      /\ n_reports' = n_reports + 1 =>
            /\ report' \in failed_macs' \ failed_macs =>
                 /\ failed_macs' = failed_macs \cup {report'}
                 /\ monitor' = "next" /\ listeners' = listeners
            /\ Len(listeners') > Len(listeners) => monitor' = "next"]_vars

\* a report matched the record with the 15-byte session key, its listener took
\* a full-length update without any effect, and the monitor took another report
C22_Witness ==
  /\ all_devices = BadKeys
  /\ Len(listeners) = 1 /\ listeners[1].mac = "M2" /\ listeners[1].enc_key = None
  /\ update = [task |-> 1, apple |-> Some(Payload(27, 43, 0)), pref |-> None]
  /\ listeners[1].pc = "recv" /\ listeners[1].apple_data = <<>>
  /\ n_reports = 2 /\ report = AddrC /\ failed_macs = {AddrC}
  /\ monitor = "next"

\* listener i issues a connect attempt in this step
IssuesConnect(i) ==
  /\ Len(listeners'[i].log) = Len(listeners[i].log) + 1
  /\ Last(listeners'[i].log).op = "connect"

\* C24: a listener goes for the in-flight set only on an update of at least 21
\* bytes whose connection-state byte is 0, with a session key of 16 bytes from
\* a non-empty key text and an autoConnect preference that is not false; and
\* it issues the attempt only from there and only when its address is not in
\* the in-flight set.
C24_ConnectOnlyWhenAllHold ==
  [][\A i \in DOMAIN listeners :
       /\ listeners[i].pc # "lock" /\ listeners'[i].pc = "lock" =>
            /\ update'.task = i
            /\ RecordOf(i).enc_key # <<>>
            /\ ValidKeyText(RecordOf(i).enc_key)
            /\ update'.apple # None
            /\ Len(update'.apple[1]) >= 21
            /\ update'.apple[1][11] = 0
            /\ update'.pref # Some(FALSE)
       /\ IssuesConnect(i) =>
            /\ listeners[i].pc = "lock"
            /\ listeners[i].addr \notin connecting_macs]_vars

\* an attempt was issued although no preference is stored
C24_Witness ==
  /\ update.pref = None
  /\ update.task \in DOMAIN listeners
  /\ listeners[update.task].pc = "connect_wait"
  /\ listeners[update.task].addr \in connecting_macs

\* listener i sees its connect attempt end in this step
SeesExit(i) ==
  /\ Len(listeners'[i].log) = Len(listeners[i].log) + 1
  /\ Last(listeners'[i].log).op = "exit"

\* C25: the address is in the in-flight set when the attempt is issued; when
\* the attempt ends it has left the set on success and is still in it on a
\* non-success status or a failure to run the tool; and no attempt is issued
\* for an address that is in the set.
C25_InFlightSetLifecycle ==
  [][\A i \in DOMAIN listeners :
       /\ IssuesConnect(i) => listeners[i].addr \in connecting_macs'
       /\ SeesExit(i) =>
            IF Last(listeners'[i].log).arg = "success"
            THEN listeners[i].addr \notin connecting_macs'
            ELSE listeners[i].addr \in connecting_macs'
       /\ listeners[i].addr \in connecting_macs => ~IssuesConnect(i)]_vars

\* after a failed attempt the same listener saw the accessory disconnected
\* again and launched nothing
C25_Witness ==
  /\ Len(listeners) = 1
  /\ listeners[1].log = <<LeOp("connect", 1, "M1"), LeOp("exit", 1, "failure")>>
  /\ n_updates = 2
  /\ update.apple = Some(Payload(27, 43, 0))
  /\ listeners[1].pc = "ended"
  /\ listeners[1].addr \in connecting_macs

\* C26: while a connect attempt for one address is in progress, the monitor
\* can take the next report, and a listener for another address that has
\* seen a disconnected accessory can go on without waiting for that attempt.
C26_OtherAddressNotDelayed ==
  \A i \in DOMAIN listeners, j \in DOMAIN listeners :
    (/\ listeners[j].pc = "connect_wait"
     /\ listeners[i].addr # listeners[j].addr
     /\ listeners[i].pc = "lock")
    => ENABLED ListenerLock(i)

\* the battery status the tray shows for a component
TrayStatusOf(t, comp) ==
  CASE comp = "l" -> t.battery_l_status
    [] comp = "r" -> t.battery_r_status
    [] comp = "c" -> t.battery_c_status

BatteryStatuses == {"Disconnected", "Charging", "NotCharging"}

\* C23: a battery status of the tray that has been set, by a BatteryInfo event
\* or by an advertisement, is set in the next state as well, to one of
\* Disconnected, Charging and NotCharging.
C23_StatusNeverUnset ==
  [][\A comp \in Components :
       TrayStatusOf(tray, comp) # None =>
         \E st \in BatteryStatuses : TrayStatusOf(tray', comp) = Some(st)]_vars

\* an advertisement set the three statuses (the case absent), then a
\* BatteryInfo event for the two buds came on top of it
C23_Witness ==
  /\ tray.battery_c = None /\ tray.battery_c_status = Some("Disconnected")
  /\ tray.battery_l = Some(50) /\ tray.battery_l_status = Some("NotCharging")
  /\ tray.battery_r_status = Some("Charging")
  /\ n_updates >= 1 /\ n_ev >= 1

\* the two packets of a hand-off to peer mac, in the order of the code
HandoffPackets(mac) ==
  <<(<<"media_information_new_device", local_mac, mac>>),
    (<<"add_tipi_device", local_mac, mac>>)>>

\* hand-off task i issues its add-peer packet in this step
IssuesAddPeer(i) ==
  /\ i \in DOMAIN handoffs
  /\ Len(handoffs[i].sent) = 1
  /\ Len(handoffs'[i].sent) = 2

\* C27: what a hand-off task has sent is the media-information packet and then
\* the add-peer packet, each with the local MAC and the peer's MAC; the
\* add-peer packet is issued only when the media-information send has
\* returned, with Ok or with Err.
C27_MediaInformationThenAddPeer ==
  /\ [](\A i \in DOMAIN handoffs : IsPrefix(handoffs[i].sent, HandoffPackets(handoffs[i].mac)))
  /\ [][\A i \in DOMAIN handoffs' :
          IssuesAddPeer(i) =>
            /\ handoffs[i].pc = "tipi"
            /\ handoffs[i].res \in {<<"ok">>, <<"err">>}]_vars

\* the add-peer packet went out after the media-information send had failed
C27_Witness ==
  \E i \in DOMAIN handoffs :
    /\ handoffs[i].pc = "tipi_wait"
    /\ handoffs[i].res = <<"err">>
    /\ handoffs[i].sent = HandoffPackets(handoffs[i].mac)
    /\ handoffs[i].mac = "B"

\* C28: the consumer does not wait in the ConnectedDevices arm: taking the
\* event leaves it at its receive with no send of the new tasks issued yet,
\* and the running consumer can take a queued ConnectedDevices event whatever
\* the hand-off tasks are doing.
C28_ConsumerNeverWaitsForHandoffs ==
  /\ [][TakesConnectedDevices =>
          /\ ev_task' = ev_task
          /\ \A i \in DOMAIN Launched : Launched[i].pc = "media" /\ Launched[i].sent = <<>>]_vars
  /\ [](rx # <<>> /\ ev_task.pc # "none" => ENABLED EventConnectedDevices)

\* the consumer has taken a second event while a send of the hand-off of the
\* first has not returned
C28_Witness ==
  /\ Len(handoffs) = 2
  /\ handoffs[1].ev = 1 /\ handoffs[1].pc = "media_wait"
  /\ handoffs[2].ev = 2
  /\ rx = <<>>

\* the router decodes an event in this step
Decodes == n_ev' = n_ev + 1

\* C29: an event decoded while no event channel is registered changes neither
\* the consumer's queue nor any subscriber's channel; during the bring-up
\* writes nothing is registered, so that holds for every event and value
\* decoded then; and the queue and the channels grow only by the event decoded
\* in the same step, so what was dropped does not come later.
C29_EventsBeforeRegistrationLost ==
  /\ [](pc \notin AfterBringUp =>
          /\ ~event_tx /\ rx = <<>>
          /\ \A c \in SubChans : chan[c] = <<>> /\ delivered[c] = <<>>)
  /\ [][/\ Decodes /\ ~event_tx => rx' = rx
        /\ Decodes /\ pc \notin AfterBringUp =>
             rx' = rx /\ chan' = chan /\ delivered' = delivered /\ pc' = pc
        /\ Len(rx') > Len(rx) =>
             Decodes /\ event_tx /\ Len(rx') = Len(rx) + 1 /\ IsPrefix(rx, rx')
        /\ \A c \in SubChans :
             Len(delivered'[c]) > Len(delivered[c]) =>
               /\ Decodes /\ pc \in AfterBringUp
               /\ Len(delivered'[c]) = Len(delivered[c]) + 1]_vars

\* two events were decoded and the consumer has not been spawned yet: the one
\* decoded during bring-up is gone, the one decoded after the registration is
\* queued
C29_Witness ==
  /\ n_ev = 2
  /\ ev_task.pc = "none"
  /\ event_tx
  /\ rx = <<ControlCommand(ListeningMode, <<2>>)>>
  /\ \A c \in SubChans : delivered[c] = <<>>

\* the battery level the tray shows for a component
TrayLevelOf(t, comp) ==
  CASE comp = "l" -> t.battery_l
    [] comp = "r" -> t.battery_r
    [] comp = "c" -> t.battery_c

\* the component byte of a bud or the case
ComponentCode(comp) == CASE comp = "l" -> 4 [] comp = "r" -> 2 [] comp = "c" -> 8

\* the readings of a battery event for one component
ReadingsFor(battery_info, comp) ==
  SelectSeq(battery_info, LAMBDA b : b.component = ComponentCode(comp))

\* the event consumer takes a BatteryInfo event in this step
TakesBatteryInfo ==
  /\ ev_task.pc = "recv"
  /\ rx # <<>>
  /\ NextEvent.type = "BatteryInfo"
  /\ rx' = Tail(rx)

\* C30: when a BatteryInfo event has been processed (no advertisement having
\* written the tray), the tray holds for each component the reading the event
\* carries for it, and neither level nor status for a component the event
\* does not carry.
C30_ReadingsReplacedWholesale ==
  [][TakesBatteryInfo /\ has_tray /\ n_updates = 0 =>
       \A comp \in Components :
         LET readings == ReadingsFor(NextEvent.value, comp) IN
           IF readings = <<>>
           THEN TrayLevelOf(tray', comp) = None /\ TrayStatusOf(tray', comp) = None
           ELSE /\ TrayLevelOf(tray', comp) = Some(Last(readings).level)
                /\ TrayStatusOf(tray', comp) = Some(Last(readings).status)]_vars

\* C31: the verified cache and the negative cache never share an address, and
\* while the monitor loop goes on no address leaves either cache and no
\* verified address changes the record it stands for.
C31_CachesDisjointAndStable ==
  /\ [](DOMAIN verified_macs \cap failed_macs = {})
  /\ [][monitor' = "next" =>
          /\ failed_macs \subseteq failed_macs'
          /\ \A a \in DOMAIN verified_macs :
               a \in DOMAIN verified_macs' /\ verified_macs'[a] = verified_macs[a]]_vars

\* two reports were taken, one address is verified and another one is in the
\* negative cache, and the monitor goes on
C31_Witness ==
  /\ n_reports = 2 /\ monitor = "next"
  /\ DOMAIN verified_macs = {AddrA} /\ verified_macs[AddrA] = "M1"
  /\ failed_macs = {AddrC}

\* the record of mac is an AirPods record whose identity key is valid hex of
\* 16 bytes and resolves the address a
ResolvingRecord(mac, a) ==
  /\ mac \in DOMAIN all_devices
  /\ all_devices[mac].type_ = "AirPods"
  /\ ValidKeyText(all_devices[mac].irk)
  /\ verify_rpa(AddressToString(a), HexDecode(all_devices[mac].irk))

\* C32: every verified address stands for an AirPods record whose identity key
\* is valid hex of 16 bytes and resolves the address; a report the monitor
\* takes for an address that no such record resolves leaves the address in the
\* negative cache, not in the verified cache, and spawns no listener.
C32_VerifiedEntriesResolve ==
  /\ [](\A a \in DOMAIN verified_macs : ResolvingRecord(verified_macs[a], a))
  /\ [][TakesReport /\ ~(\E mac \in DOMAIN all_devices : ResolvingRecord(mac, report')) =>
          /\ report' \in failed_macs'
          /\ report' \notin DOMAIN verified_macs'
          /\ listeners' = listeners]_vars

\* the address made with the key of the first accessory went to the negative
\* cache although a record of the other device type carries that key, and the
\* address of the second accessory was verified
C32_Witness ==
  /\ all_devices = TwoDevices
  /\ failed_macs = {AddrA}
  /\ DOMAIN verified_macs = {AddrB} /\ verified_macs[AddrB] = "M2"
  /\ rpa_log = <<AddrA, AddrB>>

\* C33: a listener that finds its address in the in-flight set ends in that
\* step without a connect attempt and without touching the telemetry or the
\* set; an ended listener never changes again, and no update is ever taken by
\* an ended listener.
C33_DuplicateEndsListener ==
  [][/\ \A i \in DOMAIN listeners :
          /\ (/\ listeners[i].pc = "lock"
              /\ listeners'[i] # listeners[i]
              /\ listeners[i].addr \in connecting_macs) =>
                /\ listeners'[i] = [listeners[i] EXCEPT !.pc = "ended"]
                /\ tray' = tray
                /\ connecting_macs' = connecting_macs
          /\ listeners[i].pc = "ended" => listeners'[i] = listeners[i]
     /\ n_updates' = n_updates + 1 => listeners[update'.task].pc # "ended"]_vars

\* two listeners of one address: the first one ran bluetoothctl without
\* success, the second one found the address in the set and ended without any
\* operation of its own; the third update went to the first one
C33_Witness ==
  /\ Len(listeners) = 2
  /\ listeners[1].addr = listeners[2].addr
  /\ Len(listeners[1].log) = 2 /\ listeners[1].log[1].op = "connect"
  /\ listeners[2].pc = "ended" /\ listeners[2].log = <<>>
  /\ listeners[2].addr \in connecting_macs
  /\ n_updates = 3 /\ update.task = 1 /\ update.apple = Some(Payload(27, 43, 1))

\* a full-length update of a connected accessory
ConnectedUpdate == Some(Payload(27, 43, 1))

\* C34: a failure of adapter.device() or dev.events() ends the monitor in that
\* step without a spawn; after the end no report is taken, both caches are
\* gone for good and no listener is added, while every listener spawned before
\* can still take its next step.
C34_ErrorEndsMonitorOnly ==
  /\ [](monitor = "ended" =>
          /\ verified_macs = <<>> /\ failed_macs = {}
          /\ \A i \in DOMAIN listeners :
               /\ listeners[i].pc = "recv" /\ n_updates < MaxRepeats =>
                    ENABLED ListenerRecvUpTo(MaxRepeats, i, ConnectedUpdate, None)
               /\ listeners[i].pc = "lock" /\ cm_lock = 0 => ENABLED ListenerLock(i)
               /\ listeners[i].pc = "connect_wait" => ENABLED ListenerConnectRet(i)
               /\ listeners[i].pc = "update" => ENABLED ListenerUpdate(i))
  /\ [][/\ monitor = "next" /\ monitor' = "ended" =>
            n_reports' = n_reports + 1 /\ listeners' = listeners
        /\ monitor = "ended" =>
            /\ monitor' = "ended" /\ n_reports' = n_reports /\ report' = report
            /\ rpa_log' = rpa_log
            /\ Len(listeners') = Len(listeners)]_vars

\* the first report spawned a listener, the second one ended the monitor with
\* an error, and the listener took three updates and wrote the telemetry
C34_Witness ==
  /\ monitor = "ended" /\ n_reports = 2
  /\ verified_macs = <<>> /\ rpa_log = <<AddrA>>
  /\ Len(listeners) = 1 /\ listeners[1].mac = "M1"
  /\ n_updates = 3 /\ listeners[1].pc = "recv"
  /\ tray.battery_l # None

\* C35: a command taken by the UI loop enters a send exactly when the loop's
\* map holds a manager for its MAC and the command is of the kind that manager
\* serves (the only manager the map can hold is the AACP manager of the
\* accessory found at start-up); otherwise nothing is sent.  A send that
\* returns, with or without error, puts the loop back at its receive, and the
\* loop is never anywhere else than at its receive or inside a send.
C35_SendOnlyOnMatchingManager ==
  /\ [](ui_task.pc \in {"recv", "send"})
  /\ [][/\ n_ui' = n_ui + 1 =>
            /\ ui_task.pc = "recv"
            /\ ui_task'.pc = "send" <=>
                 /\ ui_task'.cmd.mac = mac_address /\ device_managers
                 /\ ui_task'.cmd.kind \in {"SetControlCommandStatus", "RenameDevice"}
            /\ ui_task'.pc # "send" => ui_task'.pc = "recv"
        /\ ui_task.pc = "send" /\ ui_task' # ui_task =>
            /\ ui_task' = [ui_task EXCEPT !.pc = "recv", !.res = ui_task'.res]
            /\ ui_task'.res \in {"ok", "err"}
            /\ n_ui' = n_ui]_vars

\* the first command was sent on the registered manager and the send failed;
\* the loop took the next command, of the kind served by the other manager,
\* and sent nothing
C35_Witness ==
  /\ device_managers
  /\ n_ui = 2
  /\ ui_task.cmd.kind = "SetNoiseCancellationMode" /\ ui_task.cmd.mac = mac_address
  /\ ui_task.pc = "recv" /\ ui_task.res = "err"

\* C36: the window has exactly one wait on the channel outstanding (pending,
\* or returned with a message that update has not yet handled), and the
\* messages handled are the messages sent, in their order, up to the ones
\* still queued or awaiting update.
C36_OneWaitAllHandledInOrder ==
  /\ wait_tasks + Len(ui_msgs) = 1
  /\ ui_hist.sent =
       ui_hist.handled \o SelectSeq(ui_msgs, LAMBDA msg : msg # NoOp) \o ui_rx.queue

\* update handles the message of the given variant in this step
Handles(type) ==
  /\ ui_msgs # <<>>
  /\ Head(ui_msgs).type = type
  /\ ui_msgs' = Tail(ui_msgs)

\* C37: handling DeviceDisconnected(mac) leaves no state of mac, keeps the
\* state of every other device and adds none, and leaves connected_devices
\* (which still lists mac if it did) and the window as they were; at no time
\* does connected_devices list a MAC twice.
C37_DisconnectRemovesStateOnly ==
  /\ [](\A i, j \in DOMAIN app.connected_devices :
          app.connected_devices[i] = app.connected_devices[j] => i = j)
  /\ [][Handles("DeviceDisconnected") =>
          LET mac == Head(ui_msgs).mac IN
            /\ DOMAIN app'.device_states = DOMAIN app.device_states \ {mac}
            /\ \A other \in DOMAIN app'.device_states :
                 app'.device_states[other] = app.device_states[other]
            /\ app'.connected_devices = app.connected_devices
            /\ app'.window = app.window
            /\ ~app'.panicked]_vars

\* both devices connected, then the AirPods device disconnected: its state is
\* gone, it is still listed as connected, the other device has its state
C37_Witness ==
  /\ app.connected_devices = <<"M1", "N1">>
  /\ DOMAIN app.device_states = {"N1"}
  /\ app.device_states["N1"] = NothingState
  /\ Last(ui_hist.handled) = DeviceDisconnected("M1")

\* the AirPods states of the devices registered as AirPods
AirPodsStates ==
  {mac \in DOMAIN app.device_states :
     TypeOf(mac) = Some("AirPods") /\ app.device_states[mac].kind = "AirPods"}

\* the AllowOffOption value that reached the window last for mac: read from the
\* manager when the device connected, or carried by an event
LatestAllowOff(mac) ==
  IF mac \in DOMAIN ui_hist.allow_off THEN ui_hist.allow_off[mac] ELSE None

\* the option list of mac offers Off exactly when its allow_off_mode is set
OffListedIffAllowed(mac) ==
  ("Off" \in Range(app.device_states[mac].noise_control_state))
    <=> app.device_states[mac].allow_off_mode

CodedBytes == {1, 2, 3, 4, 5, 7}

\* C39: a mode encoded and decoded again is the same mode, for all six modes;
\* a byte decoded and encoded again is the same byte exactly when it is one of
\* 0x01, 0x02, 0x03, 0x04, 0x05, 0x07, and every other byte decodes to Off,
\* which encodes as 0x05.
C39_AncModeByteCoding ==
  fn_out # None =>
    LET in == fn_in[1]
        out == fn_out[1]
    IN /\ in.kind = "mode" => out.mode = in.mode
       /\ in.kind = "byte" =>
            /\ out.byte = in.byte <=> in.byte \in CodedBytes
            /\ in.byte \notin CodedBytes => out.mode = "Off" /\ out.byte = 5

\* 0x06 lies between two coded bytes and still decodes to Off
C39_Witness ==
  /\ fn_in = Some([kind |-> "byte", byte |-> 6, mode |-> "Off"])
  /\ fn_out = Some([mode |-> "Off", byte |-> 5])

====
